---- MODULE Spec2Model ----
(***************************************************************************)
(* Progressive deal-matching learner (bjpl/meal_assistant).                *)
(*                                                                         *)
(* State machine of ProgressiveLearner (progressive_learning.py) with the  *)
(* collaborators whose state it reads or writes: the DealMatcher's         *)
(* classifier (deal_matcher.py), the AccuracyTracker (accuracy_tracker.py) *)
(* and the files of the data directory.  A restart is the construction of  *)
(* a new ProgressiveLearner on the same data directory.                    *)
(*                                                                         *)
(* Conventions: Python None of an optional string field is the string      *)
(* "None"; a dict is a function whose DOMAIN is the set of its keys; a     *)
(* ratio threshold (0.55) is kept as a percentage (55) and compared by     *)
(* cross-multiplication; an Optional value is a sequence of length 0      *)
(* (None, or a file that does not exist) or 1 (the value, the content).    *)
(***************************************************************************)
EXTENDS Integers, Sequences, FiniteSets, TLC

VARIABLES
    config,                          \* PhaseTransitionConfig of the learner
    sklearn_available,               \* deal_matcher.SKLEARN_AVAILABLE
    catalog,                         \* ProductCatalog.products of the learner
    default_templates,               \* TemplateDealParser.DEFAULT_TEMPLATES (class attribute)
    aliased,                         \* stores whose template is the class's object
    current_phase,                   \* ProgressiveLearner.current_phase (1..3)
    corrections,                     \* ProgressiveLearner.corrections (log)
    ads_processed,                   \* ProgressiveLearner.ads_processed
    total_corrections,               \* ProgressiveLearner.total_corrections
    training_data,                   \* ProgressiveLearner.training_data
    pending_corrections_for_retrain, \* ProgressiveLearner.pending_corrections_for_retrain
    model,                           \* DealMatcher.model: "None", "unfitted", "trained"
    tracker,                         \* AccuracyTracker: stores, global_metrics
    templates,                       \* TemplateDealParser.templates
    file_state,                      \* data_dir/learner_state.json
    file_training,                   \* data_dir/training_data.json
    file_model,                      \* data_dir/deal_matcher.pkl
    file_tracker,                    \* data_dir/accuracy_tracker.json
    file_templates,                  \* data_dir/templates.json
    unreadable,                      \* the files a write left incomplete or corrupt
    last                             \* the last call made and what it returned

vars == <<config, sklearn_available, catalog, default_templates, aliased,
          current_phase, corrections,
          ads_processed, total_corrections, training_data,
          pending_corrections_for_retrain, model, tracker, templates,
          file_state, file_training, file_model, file_tracker, file_templates,
          unreadable, last>>

envVars == <<config, sklearn_available, catalog>>

classVars == <<default_templates, aliased>>

----------------------------------------------------------------------------
(* Bounds of the exploration *)

MaxAds == 2
MaxCorrections == 3
MaxResults == 1
MaxAdsRestart == 1
MaxCorrectionsRestart == 2
MaxResultsRestart == 1
MaxAdsForce == 2
MaxCorrectionsForce == 1
MaxAdsTrain == 1
MaxCorrectionsTrain == 5
MaxResultsTrain == 1
MaxAdsDefault == 6
MaxCorrectionsDefault == 21
MaxAdsAds == 1
MaxResultsTracker == 2
MaxCorrectionsTracker == 1
MaxResultsHistory == 1001
MaxCorrectionsCrash == 5
MaxCorrectionsTemplates == 2
MaxDeals == 3
MaxPos == 2
MaxCorrectionsAds == 5

(* A current_phase value that LearningPhase(value) rejects *)
InvalidPhase == 7

----------------------------------------------------------------------------
(* Program constants *)

PHASE_1_REGEX == 1
PHASE_2_TEMPLATE == 2
PHASE_3_ML == 3

MinTrainingExamples == 10
HistoryKept == 1000

DefaultConfig ==
    [min_ads_for_phase_2 |-> 5,
     min_corrections_for_phase_2 |-> 20,
     min_ads_for_phase_3 |-> 15,
     min_corrections_for_phase_3 |-> 50,
     min_accuracy_for_phase_3 |-> 55,
     ml_retrain_threshold |-> 10]

----------------------------------------------------------------------------
(* Dictionaries *)

EmptyDict == [k \in {} |-> 0]

Get(d, k, default) == IF k \in DOMAIN d THEN d[k] ELSE default

Put(d, k, v) == [x \in (DOMAIN d) \cup {k} |-> IF x = k THEN v ELSE d[x]]

RECURSIVE SumOver(_, _)
SumOver(d, keys) ==
    IF keys = {} THEN 0
    ELSE LET k == CHOOSE x \in keys : TRUE
         IN  d[k] + SumOver(d, keys \ {k})

SumValues(d) == SumOver(d, DOMAIN d)

(* str.lower() on the store and product names the model uses *)
Lower(s) ==
    CASE s = "Costco" -> "costco"
      [] s = "COSTCO" -> "costco"
      [] s = "Aldi"   -> "aldi"
      [] s = "Chicken Breast" -> "chicken breast"
      [] s = "Chicken Thighs" -> "chicken thighs"
      [] s = "Apples" -> "apples"
      [] s = "Soda"   -> "soda"
      [] s = "For"    -> "for"
      [] OTHER        -> s

(* `store or 'unknown'`: None and the empty string are both falsy *)
StoreOrUnknown(s) == IF s = "None" \/ s = "" THEN "unknown" ELSE s

----------------------------------------------------------------------------
(* Optional values *)

None == <<>>

Some(x) == <<x>>

IsNone(o) == Len(o) = 0

Val(o) == o[1]

----------------------------------------------------------------------------
(* ExtractedDeal (deal_parser_regex.py) and the examples of the buffer *)

ExtractedDeal(raw_text, deal_type, product_name, price, unit, quantity, discount_amount, discount_percent, original_price, confidence, position, metadata) ==
    [raw_text |-> raw_text, deal_type |-> deal_type,
     product_name |-> product_name, price |-> price, unit |-> unit,
     quantity |-> quantity, discount_amount |-> discount_amount,
     discount_percent |-> discount_percent,
     original_price |-> original_price, confidence |-> confidence,
     position |-> position, metadata |-> metadata]

(* A deal as the /ml/learn endpoint builds it: only raw_text, deal_type,   *)
(* product_name and price are given, the other fields keep their defaults. *)
EndpointDeal(raw_text, deal_type, product_name, price) ==
    ExtractedDeal(raw_text, deal_type, product_name, price, "None", None,
                  None, None, None, 0, <<0, 0>>, EmptyDict)

(* The deal of one entry of training_data.json, as _save_state writes it *)
SerializeDeal(deal) ==
    [raw_text |-> deal.raw_text, deal_type |-> deal.deal_type,
     product_name |-> deal.product_name, price |-> deal.price,
     confidence |-> deal.confidence]

SerializeExample(item) ==
    [deal |-> SerializeDeal(item.deal), product |-> item.product,
     is_match |-> item.is_match]

(* The deal _load_state rebuilds from one entry of training_data.json *)
DeserializeDeal(deal_data) ==
    ExtractedDeal(deal_data.raw_text, deal_data.deal_type,
                  deal_data.product_name, deal_data.price, "None", None,
                  None, None, None, deal_data.confidence, <<0, 0>>, EmptyDict)

DeserializeExample(item) ==
    [deal |-> DeserializeDeal(item.deal), product |-> item.product,
     is_match |-> item.is_match]

(* The entries of training_data.json for a buffer, and back *)
SerializeAll(data) == [i \in 1..Len(data) |-> SerializeExample(data[i])]

DeserializeAll(serialized) ==
    [i \in 1..Len(serialized) |-> DeserializeExample(serialized[i])]

----------------------------------------------------------------------------
(* Numbers of the ad text.  A float that the parsers read from the text is *)
(* the exact fraction num / den; a confidence or a score is kept in        *)
(* thousandths (0.85 is 850).                                              *)

Fraction(num, den) == [num |-> num, den |-> den]

(* bool(x) of a float *)
NonZero(x) == x.num # 0

(* x <= y, x < y of two fractions with positive denominators *)
FracLeq(x, y) == x.num * y.den <= y.num * x.den

FracLess(x, y) == x.num * y.den < y.num * x.den

(* bool(o) of an Optional[float] or Optional[int] field *)
TruthyFloat(o) == ~IsNone(o) /\ NonZero(Val(o))

TruthyInt(o) == ~IsNone(o) /\ Val(o) # 0

(* bool(s) of an Optional[str] field *)
TruthyStr(s) == s # "None" /\ s # ""

DigitValue(c) ==
    CASE c = "0" -> 0 [] c = "1" -> 1 [] c = "2" -> 2 [] c = "3" -> 3
      [] c = "4" -> 4 [] c = "5" -> 5 [] c = "6" -> 6 [] c = "7" -> 7
      [] c = "8" -> 8 [] c = "9" -> 9

(* int(group) of a group that \d+ matched *)
RECURSIVE ParseInt(_)
ParseInt(chars) ==
    IF Len(chars) = 0 THEN 0
    ELSE 10 * ParseInt(SubSeq(chars, 1, Len(chars) - 1))
         + DigitValue(chars[Len(chars)])

RECURSIVE PowerOfTen(_)
PowerOfTen(n) == IF n = 0 THEN 1 ELSE 10 * PowerOfTen(n - 1)

(* float(group) of a group that \d+(?:\.\d{1,2})? matched *)
ParseFloat(chars) ==
    LET dots == {i \in 1..Len(chars) : chars[i] = "."}
    IN  IF dots = {} THEN Fraction(ParseInt(chars), 1)
        ELSE LET dot == CHOOSE i \in dots : TRUE
                 whole == SubSeq(chars, 1, dot - 1)
                 decimals == SubSeq(chars, dot + 1, Len(chars))
             IN  Fraction(ParseInt(whole \o decimals), PowerOfTen(Len(decimals)))

----------------------------------------------------------------------------
(* RegexDealParser (deal_parser_regex.py), as ProgressiveLearner and       *)
(* TemplateDealParser construct it: without a store hint.                  *)

(* _clean_text on the ad texts of the model *)
clean_text(text) ==
    CASE text = "Soda  25% off" -> "Soda 25% off"
      [] OTHER -> text

(* The (label, match) pairs the loops over compiled_patterns['price'] visit  *)
(* on a cleaned text, in order; groups are character sequences.          *)
PriceMatches(text) ==
    CASE text = "Chicken Breast $9.99/lb" ->
           <<[label |-> "unit_price_lb", raw |-> "$9.99/lb", groups |-> <<<<"9", ".", "9", "9">>>>, start |-> 15, end |-> 23],
             [label |-> "price", raw |-> "$9.99", groups |-> <<<<"9", ".", "9", "9">>>>, start |-> 15, end |-> 20]>>
      [] text = "Chicken Breast $5.99/lb" ->
           <<[label |-> "unit_price_lb", raw |-> "$5.99/lb", groups |-> <<<<"5", ".", "9", "9">>>>, start |-> 15, end |-> 23],
             [label |-> "price", raw |-> "$5.99", groups |-> <<<<"5", ".", "9", "9">>>>, start |-> 15, end |-> 20]>>
      [] text = "Apples 3 for $6.00" ->
           <<[label |-> "price", raw |-> "$6.00", groups |-> <<<<"6", ".", "0", "0">>>>, start |-> 13, end |-> 18]>>
      [] text = "0 for $5.00" ->
           <<[label |-> "price", raw |-> "$5.00", groups |-> <<<<"5", ".", "0", "0">>>>, start |-> 6, end |-> 11]>>
      [] OTHER -> <<>>

(* The (label, match) pairs the loops over compiled_patterns['multi_buy'] visit  *)
(* on a cleaned text, in order; groups are character sequences.          *)
MultiBuyMatches(text) ==
    CASE text = "Apples 3 for $6.00" ->
           <<[label |-> "multi_buy", raw |-> "3 for $6.00", groups |-> <<<<"3">>, <<"6", ".", "0", "0">>>>, start |-> 7, end |-> 18]>>
      [] text = "0 for $5.00" ->
           <<[label |-> "multi_buy", raw |-> "0 for $5.00", groups |-> <<<<"0">>, <<"5", ".", "0", "0">>>>, start |-> 0, end |-> 11]>>
      [] OTHER -> <<>>

(* The (label, match) pairs the loops over compiled_patterns['bogo'] visit  *)
(* on a cleaned text, in order; groups are character sequences.          *)
BogoMatches(text) ==
    CASE text = "BOGO" ->
           <<[label |-> "bogo_simple", raw |-> "BOGO", groups |-> <<>>, start |-> 0, end |-> 4]>>
      [] OTHER -> <<>>

(* The (label, match) pairs the loops over compiled_patterns['discount'] visit  *)
(* on a cleaned text, in order; groups are character sequences.          *)
DiscountMatches(text) ==
    CASE text = "Soda 25% off" ->
           <<[label |-> "percent_off", raw |-> "25% off", groups |-> <<<<"2", "5">>>>, start |-> 5, end |-> 12]>>
      [] text = "25% off" ->
           <<[label |-> "percent_off", raw |-> "25% off", groups |-> <<<<"2", "5">>>>, start |-> 0, end |-> 7]>>
      [] OTHER -> <<>>

(* The (label, match) pairs the loops over compiled_patterns['product'] visit  *)
(* on a cleaned text, in order; name is group(1).                          *)
ProductMatches(text) ==
    CASE text = "Chicken Breast $9.99/lb" ->
           <<[label |-> "caps_product", name |-> "Chicken Breast ", start |-> 0, end |-> 15],
             [label |-> "product_before_price", name |-> "Chicken Breast ", start |-> 0, end |-> 16]>>
      [] text = "Chicken Breast $5.99/lb" ->
           <<[label |-> "caps_product", name |-> "Chicken Breast ", start |-> 0, end |-> 15],
             [label |-> "product_before_price", name |-> "Chicken Breast ", start |-> 0, end |-> 16]>>
      [] text = "Apples 3 for $6.00" ->
           <<[label |-> "caps_product", name |-> "Apples ", start |-> 0, end |-> 7],
             [label |-> "caps_product", name |-> "for ", start |-> 9, end |-> 13],
             [label |-> "product_before_price", name |-> "for ", start |-> 9, end |-> 14]>>
      [] text = "0 for $5.00" ->
           <<[label |-> "caps_product", name |-> "for ", start |-> 2, end |-> 6],
             [label |-> "product_before_price", name |-> "for ", start |-> 2, end |-> 7]>>
      [] text = "Soda 25% off" ->
           <<[label |-> "caps_product", name |-> "Soda ", start |-> 0, end |-> 5]>>
      [] text = "BOGO" ->
           <<[label |-> "caps_product", name |-> "BOGO", start |-> 0, end |-> 4]>>
      [] OTHER -> <<>>

(* _clean_product_name(name.strip()) on the names the product patterns find *)
clean_product_name(name) ==
    CASE name = "Apples " -> "Apples"
      [] name = "BOGO" -> "Bogo"
      [] name = "Chicken Breast " -> "Chicken Breast"
      [] name = "Soda " -> "Soda"
      [] name = "for " -> "For"

(* A deal as the _extract_* methods construct it: the fields they do not  *)
(* give keep the defaults of the dataclass.                                *)
NewDeal(raw_text, deal_type, price, unit, quantity, discount_amount, discount_percent, position, metadata) ==
    ExtractedDeal(raw_text, deal_type, "None", price, unit, quantity,
                  discount_amount, discount_percent, None, 0, position, metadata)

(* _extract_prices *)
ExtractPrice(m) ==
    LET unit == CASE m.label = "unit_price_lb" -> "lb"
                  [] m.label = "unit_price_oz" -> "oz"
                  [] m.label = "unit_price_each" -> "ea"
                  [] m.label = "unit_price_kg" -> "kg"
                  [] OTHER -> "None"
    IN  NewDeal(m.raw, IF unit = "None" THEN "price" ELSE "unit_price",
                Some(ParseFloat(m.groups[1])), unit, None, None, None,
                <<m.start, m.end>>, [pattern |-> m.label])

extract_prices(text) ==
    [i \in 1..Len(PriceMatches(text)) |-> ExtractPrice(PriceMatches(text)[i])]

(* _extract_multi_buy: total_price / quantity raises ZeroDivisionError for *)
(* a quantity of 0.                                                        *)
MultiBuyRaises(text) ==
    \E i \in 1..Len(MultiBuyMatches(text)) :
        ParseInt(MultiBuyMatches(text)[i].groups[1]) = 0

ExtractMultiBuy(m) ==
    LET quantity == ParseInt(m.groups[1])
        total_price == ParseFloat(m.groups[2])
    IN  NewDeal(m.raw, "multi_buy",
                Some(Fraction(total_price.num, total_price.den * quantity)),
                "None", Some(quantity), None, None, <<m.start, m.end>>,
                [pattern |-> m.label, total_price |-> total_price])

extract_multi_buy(text) ==
    [i \in 1..Len(MultiBuyMatches(text)) |-> ExtractMultiBuy(MultiBuyMatches(text)[i])]

(* _extract_bogo *)
ExtractBogo(m) ==
    LET buy_qty == IF m.label = "bogo_simple" THEN 1 ELSE ParseInt(m.groups[1])
        get_qty == IF m.label = "bogo_simple" THEN 1 ELSE ParseInt(m.groups[2])
    IN  NewDeal(m.raw, "bogo", None, "None", Some(buy_qty), None, None,
                <<m.start, m.end>>,
                [pattern |-> m.label, buy_quantity |-> buy_qty,
                 get_quantity |-> get_qty])

extract_bogo(text) ==
    [i \in 1..Len(BogoMatches(text)) |-> ExtractBogo(BogoMatches(text)[i])]

(* _extract_discounts *)
ExtractDiscount(m) ==
    IF m.label = "percent_off"
        THEN NewDeal(m.raw, "percent_off", None, "None", None, None,
                     Some(ParseFloat(m.groups[1])), <<m.start, m.end>>,
                     [pattern |-> m.label])
        ELSE NewDeal(m.raw, "save_amount", None, "None", None,
                     Some(ParseFloat(m.groups[1])), None, <<m.start, m.end>>,
                     [pattern |-> m.label])

extract_discounts(text) ==
    [i \in 1..Len(DiscountMatches(text)) |-> ExtractDiscount(DiscountMatches(text)[i])]

(* _associate_products: the first of the closest product candidates that   *)
(* end before the deal starts, less than 100 characters away.               *)
ClosestProduct(candidates, deal) ==
    LET before == {i \in 1..Len(candidates) :
                      /\ candidates[i].end <= deal.position[1]
                      /\ deal.position[1] - candidates[i].end < 100}
        closest == {i \in before : \A j \in before :
                      candidates[i].end >= candidates[j].end}
    IN  IF before = {} THEN None
        ELSE Some(candidates[CHOOSE i \in closest : \A j \in closest : i <= j])

associate_products(text, deals) ==
    [i \in 1..Len(deals) |->
        LET closest_product == ClosestProduct(ProductMatches(text), deals[i])
        IN  IF IsNone(closest_product) THEN deals[i]
            ELSE [deals[i] EXCEPT !.product_name =
                     clean_product_name(Val(closest_product).name)]]

(* _positions_overlap with spans that touch taken as disjoint *)
positions_overlap_Strict(pos1, pos2) == ~(pos1[2] <= pos2[1] \/ pos2[2] <= pos1[1])

(* _positions_overlap *)
positions_overlap(pos1, pos2) == ~(pos1[2] < pos2[1] \/ pos2[2] < pos1[1])

(* _deal_info_score *)
deal_info_score(deal) ==
    (IF TruthyStr(deal.product_name) THEN 3 ELSE 0)
    + (IF TruthyFloat(deal.price) THEN 2 ELSE 0)
    + (IF TruthyStr(deal.unit) THEN 1 ELSE 0)
    + (IF TruthyFloat(deal.discount_amount) \/ TruthyFloat(deal.discount_percent)
           THEN 1 ELSE 0)
    + (IF TruthyFloat(deal.original_price) THEN 1 ELSE 0)

(* sorted(deals, key=lambda d: d.position[0]): a stable sort *)
RECURSIVE SortByStart(_)
SortByStart(deals) ==
    IF Len(deals) <= 1 THEN deals
    ELSE LET sorted == SortByStart(SubSeq(deals, 1, Len(deals) - 1))
             deal == deals[Len(deals)]
             before == {i \in 1..Len(sorted) :
                           sorted[i].position[1] <= deal.position[1]}
             k == Cardinality(before)
         IN  SubSeq(sorted, 1, k) \o <<deal>> \o SubSeq(sorted, k + 1, Len(sorted))

(* list.remove(x): without the first element equal to x *)
Remove(s, x) ==
    LET k == CHOOSE i \in 1..Len(s) : s[i] = x /\ \A j \in 1..(i - 1) : s[j] # x
    IN  SubSeq(s, 1, k - 1) \o SubSeq(s, k + 1, Len(s))

(* The loop of _deduplicate_deals over the sorted deals from index i on *)
RECURSIVE DedupFrom(_, _, _)
DedupFrom(sorted_deals, i, unique_deals) ==
    IF i > Len(sorted_deals) THEN unique_deals
    ELSE LET deal == sorted_deals[i]
             overlapping == {j \in 1..Len(unique_deals) :
                 positions_overlap(deal.position, unique_deals[j].position)}
         IN  IF overlapping = {}
                 THEN DedupFrom(sorted_deals, i + 1, Append(unique_deals, deal))
             ELSE LET existing == unique_deals[CHOOSE j \in overlapping :
                                                  \A k \in overlapping : j <= k]
                  IN  IF deal_info_score(deal) > deal_info_score(existing)
                          THEN DedupFrom(sorted_deals, i + 1,
                                   Append(Remove(unique_deals, existing), deal))
                          ELSE DedupFrom(sorted_deals, i + 1, unique_deals)

(* _deduplicate_deals *)
deduplicate_deals(deals) ==
    IF Len(deals) = 0 THEN deals ELSE DedupFrom(SortByStart(deals), 1, <<>>)

Min(a, b) == IF a <= b THEN a ELSE b

(* RegexDealParser._calculate_confidence of one deal, in thousandths *)
RegexConfidence(deal) ==
    Min(300
        + (IF TruthyStr(deal.product_name) THEN 200 ELSE 0)
        + (IF TruthyFloat(deal.price) /\ Val(deal.price).num > 0 THEN 150 ELSE 0)
        + (IF deal.deal_type # "unknown" THEN 100 ELSE 0)
        + (IF TruthyStr(deal.unit) \/ TruthyInt(deal.quantity) THEN 100 ELSE 0)
        + (IF "store" \in DOMAIN deal.metadata THEN 150 ELSE 0),
        1000)

(* RegexDealParser.parse: the exception it raises ("None" when it returns) *)
(* and the deals it returns.                                               *)
RegexParse(text) ==
    LET cleaned_text == clean_text(text)
    IN  IF MultiBuyRaises(cleaned_text)
            THEN [raised |-> "ZeroDivisionError", deals |-> <<>>]
        ELSE LET found == extract_prices(cleaned_text)
                          \o extract_multi_buy(cleaned_text)
                          \o extract_bogo(cleaned_text)
                          \o extract_discounts(cleaned_text)
                 unique_deals == deduplicate_deals(
                                     associate_products(cleaned_text, found))
             IN  [raised |-> "None",
                  deals |-> [i \in 1..Len(unique_deals) |->
                      [unique_deals[i] EXCEPT
                          !.confidence = RegexConfidence(unique_deals[i])]]]

----------------------------------------------------------------------------
(* TemplateDealParser (deal_parser_template.py).  A StoreTemplate holds    *)
(* the fields that parse (without OCR coordinates) and                     *)
(* learn_from_correction read or write; accuracy is kept in hundredths     *)
(* (0.55 is 55).                                                           *)

StoreTemplate(store_name, layout_type, price_pattern, product_pattern) ==
    [store_name |-> store_name, layout_type |-> layout_type,
     price_pattern |-> price_pattern, product_pattern |-> product_pattern,
     sample_count |-> 0, accuracy |-> 0, custom_patterns |-> <<>>]

DEFAULT_TEMPLATES ==
    [costco |-> StoreTemplate("costco", "grid",
                    "\\$(\\d+\\.\\d{2})\\s+(?:after|instant)",
                    "^([A-Z][A-Z\\s]{5,40})$"),
     whole_foods |-> StoreTemplate("whole_foods", "mixed",
                    "(?:sale|prime)\\s*\\$(\\d+\\.\\d{2})", "None"),
     safeway |-> StoreTemplate("safeway", "grid",
                    "club\\s+price\\s+\\$(\\d+\\.\\d{2})", "None"),
     walmart |-> StoreTemplate("walmart", "list",
                    "(?:rollback|was\\s+\\$\\d+\\.\\d{2}\\s+now)\\s*\\$(\\d+\\.\\d{2})",
                    "None"),
     kroger |-> StoreTemplate("kroger", "grid", "None", "None")]

DealTypes ==
    {"price", "unit_price", "multi_buy", "bogo", "save_amount", "percent_off",
     "member_price", "unknown"}

(* _split_grid on the ad texts of the model: the blocks between blank lines *)
split_grid(text) ==
    CASE text = "" -> <<>>
      [] OTHER -> <<text>>

(* re.search(pattern, text): group(1) of the first match, also as characters, *)
(* for the patterns of the templates over the texts of the model.        *)
re_search(pattern, text) ==
    CASE pattern = "\\$(\\d+\\.\\d{2})" /\ text = "Chicken Breast $9.99/lb" ->
           Some([text |-> "9.99", chars |-> <<"9", ".", "9", "9">>])
      [] pattern = "\\$(\\d+\\.\\d{2})" /\ text = "Chicken Breast $5.99/lb" ->
           Some([text |-> "5.99", chars |-> <<"5", ".", "9", "9">>])
      [] pattern = "\\$(\\d+\\.\\d{2})" /\ text = "Apples 3 for $6.00" ->
           Some([text |-> "6.00", chars |-> <<"6", ".", "0", "0">>])
      [] pattern = "\\$(\\d+\\.\\d{2})" /\ text = "0 for $5.00" ->
           Some([text |-> "5.00", chars |-> <<"5", ".", "0", "0">>])
      [] pattern = "\\$(5\\.99)" /\ text = "Chicken Breast $5.99/lb" ->
           Some([text |-> "5.99", chars |-> <<"5", ".", "9", "9">>])
      [] pattern = "(5\\.99)\\s*(?:dollars?|usd)"
             /\ text = "Chicken Breast 5.99 dollars" ->
           Some([text |-> "5.99", chars |-> <<"5", ".", "9", "9">>])
      [] OTHER -> None

(* re.compile(pattern, re.IGNORECASE).finditer(text) for the custom      *)
(* patterns learn_from_correction builds, over the texts of the model.   *)
re_finditer(pattern, text) ==
    CASE pattern = "\\$(5\\.99)" /\ text = "Chicken Breast $5.99/lb" ->
           <<[raw |-> "$5.99", groups |-> <<<<"5", ".", "9", "9">>>>]>>
      [] OTHER -> <<>>

(* The first of the first three lines of a block that is a product name: *)
(* re.match(r'^[A-Z][A-Za-z\s\']{2,30}$', line.strip())                   *)
first_product_line(block) ==
    CASE block = "BOGO" -> "BOGO"
      [] OTHER -> "None"

(* a in b of two raw texts of deals of the model, a # b *)
ProperSubstring(a, b) ==
    \/ (b = "$5.99/lb" /\ a \in {"$5.99"})
    \/ (b = "Apples 3 for $6.00" /\ a \in {"3 for $6.00"})
    \/ (b = "Chicken Breast $5.99/lb" /\ a \in {"$5.99", "$5.99/lb"})
    \/ (b = "Chicken Breast $9.99/lb" /\ a \in {"$9.99/lb"})
    \/ (b = "Soda  25% off" /\ a \in {"25% off"})

(* _get_template: the exact match; no store name of the model contains or  *)
(* is contained in another key, so the fuzzy match finds nothing more.     *)
get_template(tpls, store) ==
    IF ~TruthyStr(store) THEN None
    ELSE IF Lower(store) \in DOMAIN tpls THEN Some(tpls[Lower(store)])
    ELSE None

(* _extract_from_block *)
extract_from_block(block, template, block_index) ==
    LET by_product_pattern ==
            IF template.product_pattern = "None" THEN None
            ELSE re_search(template.product_pattern, block)
        by_price_pattern ==
            IF template.price_pattern = "None" THEN None
            ELSE re_search(template.price_pattern, block)
        by_generic_price == re_search("\\$(\\d+\\.\\d{2})", block)
        price == IF ~IsNone(by_price_pattern)
                     THEN Some(ParseFloat(Val(by_price_pattern).chars))
                 ELSE IF ~IsNone(by_generic_price)
                     THEN Some(ParseFloat(Val(by_generic_price).chars))
                 ELSE None
        product_name == IF ~IsNone(by_product_pattern)
                            THEN Val(by_product_pattern).text
                            ELSE first_product_line(block)
    IN  IF block = "" \/ IsNone(price) THEN <<>>
        ELSE <<ExtractedDeal(block, "price", product_name, price, "None", None,
                   None, None, None, 0, <<0, 0>>,
                   [source |-> "template", store |-> template.store_name,
                    block_index |-> block_index])>>

RECURSIVE Concat(_)
Concat(seqs) ==
    IF Len(seqs) = 0 THEN <<>> ELSE Head(seqs) \o Concat(Tail(seqs))

(* _extract_with_template: every layout type splits the one-line texts of  *)
(* the model into the same blocks.                                         *)
extract_with_template(text, template) ==
    LET blocks == split_grid(text)
    IN  Concat([i \in 1..Len(blocks) |->
                   extract_from_block(blocks[i], template, i - 1)])

(* The price _apply_custom_patterns takes from the groups of a match: the  *)
(* first one in [0.01, 1000].                                              *)
CustomPrice(groups) ==
    LET plausible == {i \in 1..Len(groups) :
            /\ FracLeq(Fraction(1, 100), ParseFloat(groups[i]))
            /\ FracLeq(ParseFloat(groups[i]), Fraction(1000, 1))}
    IN  IF plausible = {} THEN None
        ELSE Some(ParseFloat(groups[CHOOSE i \in plausible :
                                       \A j \in plausible : i <= j]))

(* The deals one custom pattern yields *)
CustomDeals(pattern_info, text) ==
    LET found == re_finditer(pattern_info.pattern, text)
        deal_type == IF pattern_info.deal_type \in DealTypes
                         THEN pattern_info.deal_type ELSE "price"
    IN  Concat([i \in 1..Len(found) |->
            LET price == CustomPrice(found[i].groups)
            IN  IF TruthyFloat(price)
                    THEN <<ExtractedDeal(found[i].raw, deal_type, "None", price,
                               "None", None, None, None, None, 0, <<0, 0>>,
                               [source |-> "custom_pattern",
                                pattern_id |-> pattern_info.id])>>
                    ELSE <<>>])

(* _apply_custom_patterns *)
apply_custom_patterns(text, template) ==
    Concat([i \in 1..Len(template.custom_patterns) |->
               IF template.custom_patterns[i].pattern = ""
                   THEN <<>>
                   ELSE CustomDeals(template.custom_patterns[i], text)])

(* == of two Optional[float] prices *)
PriceEq(p1, p2) ==
    IF IsNone(p1) \/ IsNone(p2) THEN IsNone(p1) /\ IsNone(p2)
    ELSE Val(p1).num * Val(p2).den = Val(p2).num * Val(p1).den

(* _similar_products: two distinct product names of the model share no     *)
(* word and neither contains the other.                                    *)
similar_products(name1, name2) ==
    /\ TruthyStr(name1)
    /\ TruthyStr(name2)
    /\ Lower(name1) = Lower(name2)

(* _merge_deals *)
merge_deals(template_deals, regex_deals) ==
    LET IsNew(regex_deal) ==
            ~\E i \in 1..Len(template_deals) :
                /\ PriceEq(template_deals[i].price, regex_deal.price)
                /\ similar_products(template_deals[i].product_name,
                                    regex_deal.product_name)
    IN  template_deals \o SelectSeq(regex_deals, IsNew)

(* _calculate_confidence adding the whole accuracy instead of a tenth of   *)
(* it and returning the score without the cap at 1.0                       *)
TemplateConfidence_FullBonusNoCap(deal, template) ==
    400
    + (CASE Get(deal.metadata, "source", "None") = "template" -> 150
         [] Get(deal.metadata, "source", "None") = "custom_pattern" -> 200
         [] OTHER -> 0)
    + (IF TruthyStr(deal.product_name) THEN 150 ELSE 0)
    + (IF /\ TruthyFloat(deal.price)
          /\ FracLeq(Fraction(1, 100), Val(deal.price))
          /\ FracLeq(Val(deal.price), Fraction(500, 1))
           THEN 100 ELSE 0)
    + (IF ~IsNone(template) /\ Val(template).accuracy > 0
           THEN 10 * Val(template).accuracy ELSE 0)

(* TemplateDealParser._calculate_confidence of one deal, in thousandths *)
TemplateConfidence(deal, template) ==
    Min(400
        + (CASE Get(deal.metadata, "source", "None") = "template" -> 150
             [] Get(deal.metadata, "source", "None") = "custom_pattern" -> 200
             [] OTHER -> 0)
        + (IF TruthyStr(deal.product_name) THEN 150 ELSE 0)
        + (IF /\ TruthyFloat(deal.price)
              /\ FracLeq(Fraction(1, 100), Val(deal.price))
              /\ FracLeq(Val(deal.price), Fraction(500, 1))
               THEN 100 ELSE 0)
        + (IF ~IsNone(template) /\ Val(template).accuracy > 0
               THEN Val(template).accuracy ELSE 0),
        1000)

(* TemplateDealParser.parse without coordinates: the exception it raises   *)
(* ("None" when it returns) and the deals it returns.                      *)
TemplateParse(text, store, tpls) ==
    LET template == get_template(tpls, store)
        regex == RegexParse(text)
    IN  IF regex.raised # "None" THEN [raised |-> regex.raised, deals |-> <<>>]
        ELSE LET deals == IF IsNone(template) THEN <<>>
                          ELSE extract_with_template(text, Val(template))
                               \o apply_custom_patterns(text, Val(template))
                 merged_deals == merge_deals(deals, regex.deals)
             IN  [raised |-> "None",
                  deals |-> [i \in 1..Len(merged_deals) |->
                      [merged_deals[i] EXCEPT
                          !.confidence = TemplateConfidence(merged_deals[i], template)]]]

(* f"{price:.2f}" of a price with whole cents, with re.escape applied:     *)
(* the dot is escaped.                                                     *)
EscapedPrice(price) ==
    LET cents == (price.num * 100) \div price.den
    IN  ToString(cents \div 100) \o "\\."
        \o ToString((cents % 100) \div 10) \o ToString(cents % 10)

(* patterns_to_try of learn_from_correction *)
patterns_to_try(escaped_price) ==
    <<"\\$(" \o escaped_price \o ")",
      "(" \o escaped_price \o ")\\s*(?:dollars?|usd)",
      "price[:\\s]+\\$?(" \o escaped_price \o ")">>

(* TemplateDealParser.learn_from_correction: the templates afterwards,     *)
(* which save_templates then writes.                                       *)
TemplateLearn(tpls, store, original_deal, corrected_deal, raw_text) ==
    LET store_lower == Lower(store)
        existing == Get(tpls, store_lower,
                        StoreTemplate(store_lower, "grid", "None", "None"))
        template == [existing EXCEPT !.sample_count = @ + 1]
        candidates == patterns_to_try(EscapedPrice(Val(corrected_deal.price)))
        working == {i \in 1..Len(candidates) :
                       ~IsNone(re_search(candidates[i], raw_text))}
        learned ==
            IF /\ TruthyFloat(corrected_deal.price)
               /\ ~PriceEq(original_deal.price, corrected_deal.price)
               /\ working # {}
                THEN <<[id |-> "price_" \o ToString(template.sample_count),
                        pattern |-> candidates[CHOOSE i \in working :
                                                   \A j \in working : i <= j],
                        deal_type |-> "price",
                        learned_from |-> corrected_deal.raw_text]>>
                ELSE <<>>
    IN  Put(tpls, store_lower,
            [template EXCEPT !.custom_patterns = @ \o learned])

(* update_template_accuracy: the templates afterwards and whether they     *)
(* are saved.                                                              *)
TemplateAccuracyUpdate(tpls, store, accuracy) ==
    IF Lower(store) \in DOMAIN tpls
        THEN [tpls EXCEPT ![Lower(store)].accuracy = accuracy]
        ELSE tpls

(* The content of templates.json that save_templates writes *)
SaveTemplates(tpls) ==
    [s \in DOMAIN tpls |->
        [store_name |-> tpls[s].store_name,
         layout_type |-> tpls[s].layout_type,
         price_pattern |-> tpls[s].price_pattern,
         product_pattern |-> tpls[s].product_pattern,
         sample_count |-> tpls[s].sample_count,
         accuracy |-> tpls[s].accuracy,
         custom_patterns |-> tpls[s].custom_patterns]]

(* TemplateDealParser.__init__: the default templates, then the templates  *)
(* of templates.json when the file is there and json.load reads it.        *)
LoadTemplates(ftemplates, readable) ==
    IF IsNone(ftemplates) \/ ~readable THEN DEFAULT_TEMPLATES
    ELSE [s \in (DOMAIN DEFAULT_TEMPLATES) \cup (DOMAIN Val(ftemplates)) |->
             IF s \in DOMAIN Val(ftemplates)
                 THEN LET template_data == Val(ftemplates)[s]
                      IN  [store_name |-> template_data.store_name,
                           layout_type |-> template_data.layout_type,
                           price_pattern |-> template_data.price_pattern,
                           product_pattern |-> template_data.product_pattern,
                           sample_count |-> template_data.sample_count,
                           accuracy |-> template_data.accuracy,
                           custom_patterns |-> template_data.custom_patterns]
                 ELSE DEFAULT_TEMPLATES[s]]

----------------------------------------------------------------------------
(* DealMatcher.match (deal_matcher.py) and ProductCatalog *)

(* ProductCatalog.search: whether a product of this name is a result for *)
(* the query, over the product names of the model.                       *)
SearchHit(query, name) ==
    \/ (name = "Chicken Breast" /\ query \in {"Chicken Breast"})
    \/ (name = "Chicken Thighs" /\ query \in {"Chicken Breast"})

(* ProductCatalog.search *)
CatalogSearch(products, query) ==
    LET IsResult(product) == SearchHit(query, product.name)
    IN  SelectSeq(products, IsResult)

(* _get_candidates: the search results, and the products of the deal's     *)
(* category when there are fewer than 10 of them.                          *)
get_candidates(products, deal) ==
    LET candidates == IF TruthyStr(deal.product_name)
                          THEN CatalogSearch(products, deal.product_name)
                          ELSE <<>>
        category == Get(deal.metadata, "category", "")
        IsMore(product) ==
            /\ Get(product, "category", "None") = category
            /\ \A i \in 1..Len(candidates) : candidates[i] # product
    IN  IF Len(candidates) < 10 /\ category # ""
            THEN candidates \o SelectSeq(products, IsMore)
            ELSE candidates

(* np.argsort(scores)[::-1]: ascending order reversed, so the highest      *)
(* score comes first and of equal scores the later candidate.              *)
RECURSIVE SortByScore(_)
SortByScore(found) ==
    IF Len(found) <= 1 THEN found
    ELSE LET sorted == SortByScore(SubSeq(found, 1, Len(found) - 1))
             one == found[Len(found)]
             before == {i \in 1..Len(sorted) : sorted[i].match_score > one.match_score}
             k == Cardinality(before)
         IN  SubSeq(sorted, 1, k) \o <<one>> \o SubSeq(sorted, k + 1, Len(sorted))

(* _match_single_deal with a fitted classifier: scores[i] is the           *)
(* positive-class probability predict_proba gives the i-th candidate, in   *)
(* thousandths; the top_k = 3 highest are kept.                            *)
match_single_deal(products, deal, scores) ==
    IF ~TruthyStr(deal.product_name) THEN <<>>
    ELSE LET candidates == get_candidates(products, deal)
             found == [i \in 1..Len(candidates) |->
                          [deal |-> deal,
                           product_id |-> Get(candidates[i], "id", ""),
                           product_name |-> Get(candidates[i], "name", ""),
                           category |-> Get(candidates[i], "category", ""),
                           match_score |-> scores[i]]]
         IN  SubSeq(SortByScore(found), 1, Min(3, Len(found)))

(* DealMatcher.match as process_ad calls it, with a model: predict_proba   *)
(* of a classifier that was never fitted raises NotFittedError.            *)
MatchRaises(products, deals, mdl) ==
    /\ mdl = "unfitted"
    /\ \E i \in 1..Len(deals) :
          /\ TruthyStr(deals[i].product_name)
          /\ Len(get_candidates(products, deals[i])) > 0

match(products, deals, scores) ==
    Concat([i \in 1..Len(deals) |-> match_single_deal(products, deals[i], scores)])

----------------------------------------------------------------------------
(* DealMatcher.train and ProgressiveLearner._retrain_ml_model *)

(* What DealMatcher.train does with a buffer of at least 10 examples when  *)
(* scikit-learn is there: _calculate_features raises on a product whose    *)
(* name is None (before self.model is assigned); fit raises on a feature   *)
(* that is not finite (after self.model was assigned the new, unfitted     *)
(* classifier); otherwise the classifier is fitted and saved.              *)
TrainOutcome(data) ==
    IF \E i \in 1..Len(data) : Get(data[i].product, "name", "") = "None"
        THEN "features_raise"
    ELSE IF \E i \in 1..Len(data) :
                Get(data[i].product, "purchase_frequency", "0") = "inf"
        THEN "fit_raises"
    ELSE "fitted"

(* DealMatcher.train: the matcher's model and model file afterwards, and   *)
(* whether the call raised.                                                *)
Train(data, mdl, fmodel) ==
    IF ~sklearn_available
        THEN [raised |-> FALSE, error |-> TRUE, model |-> mdl, file_model |-> fmodel]
    ELSE IF Len(data) < MinTrainingExamples
        THEN [raised |-> FALSE, error |-> TRUE, model |-> mdl, file_model |-> fmodel]
    ELSE CASE TrainOutcome(data) = "features_raise" ->
                [raised |-> TRUE, error |-> FALSE, model |-> mdl, file_model |-> fmodel]
           [] TrainOutcome(data) = "fit_raises" ->
                [raised |-> TRUE, error |-> FALSE, model |-> "unfitted", file_model |-> fmodel]
           [] OTHER ->
                [raised |-> FALSE, error |-> FALSE, model |-> "trained",
                 file_model |-> Some("trained")]

(* _retrain_ml_model leaving the pending counter as it is after a training *)
RetrainMlModel_NoReset(data, mdl, pending, fmodel) ==
    IF Len(data) < MinTrainingExamples
        THEN [status |-> "skipped", model |-> mdl, pending |-> pending,
              file_model |-> fmodel]
    ELSE LET t == Train(data, mdl, fmodel)
         IN  IF t.raised
                 THEN [status |-> "error", model |-> t.model, pending |-> pending,
                       file_model |-> t.file_model]
                 ELSE [status |-> "success", model |-> t.model, pending |-> pending,
                       file_model |-> t.file_model]

(* _retrain_ml_model: status returned, and the state it leaves *)
RetrainMlModel(data, mdl, pending, fmodel) ==
    IF Len(data) < MinTrainingExamples
        THEN [status |-> "skipped", model |-> mdl, pending |-> pending,
              file_model |-> fmodel]
    ELSE LET t == Train(data, mdl, fmodel)
         IN  IF t.raised
                 THEN [status |-> "error", model |-> t.model, pending |-> pending,
                       file_model |-> t.file_model]
                 ELSE [status |-> "success", model |-> t.model, pending |-> 0,
                       file_model |-> t.file_model]

----------------------------------------------------------------------------
(* AccuracyTracker (accuracy_tracker.py) *)

AccuracyMetrics(total, correct, incorrect, received) ==
    [total_deals |-> total, correct_matches |-> correct,
     incorrect_matches |-> incorrect, corrections_received |-> received]

NoMetrics == AccuracyMetrics(0, 0, 0, 0)

StoreAccuracy(name) ==
    [store_name |-> name, overall |-> NoMetrics, by_phase |-> EmptyDict,
     by_deal_type |-> EmptyDict, history |-> <<>>]

NewTracker == [stores |-> EmptyDict, global_metrics |-> NoMetrics]

(* StoreAccuracy.add_result: overall counts the incorrect results, the     *)
(* by-phase and by-deal-type metrics count only total and correct.         *)
add_result(sa, is_correct, phase, deal_type) ==
    LET bp == Get(sa.by_phase, phase, NoMetrics)
        bt == Get(sa.by_deal_type, deal_type, NoMetrics)
    IN  [sa EXCEPT
           !.overall = [@ EXCEPT
               !.total_deals = @ + 1,
               !.correct_matches = IF is_correct THEN @ + 1 ELSE @,
               !.incorrect_matches = IF is_correct THEN @ ELSE @ + 1],
           !.by_phase = Put(sa.by_phase, phase, [bp EXCEPT
               !.total_deals = @ + 1,
               !.correct_matches = IF is_correct THEN @ + 1 ELSE @]),
           !.by_deal_type = Put(sa.by_deal_type, deal_type, [bt EXCEPT
               !.total_deals = @ + 1,
               !.correct_matches = IF is_correct THEN @ + 1 ELSE @]),
           !.history = Append(@, [is_correct |-> is_correct, phase |-> phase,
                                  deal_type |-> deal_type])]

(* add_correction counting the corrected deal as an incorrect result too *)
add_correction_CountsIncorrect(sa, phase, deal_type) ==
    [sa EXCEPT
       !.overall = [@ EXCEPT !.corrections_received = @ + 1,
                             !.incorrect_matches = @ + 1],
       !.by_phase = IF phase \in DOMAIN sa.by_phase
                        THEN [@ EXCEPT ![phase].corrections_received = @ + 1]
                        ELSE @,
       !.by_deal_type = IF deal_type \in DOMAIN sa.by_deal_type
                        THEN [@ EXCEPT ![deal_type].corrections_received = @ + 1]
                        ELSE @]

(* StoreAccuracy.add_correction *)
add_correction(sa, phase, deal_type) ==
    [sa EXCEPT
       !.overall = [@ EXCEPT !.corrections_received = @ + 1],
       !.by_phase = IF phase \in DOMAIN sa.by_phase
                        THEN [@ EXCEPT ![phase].corrections_received = @ + 1]
                        ELSE @,
       !.by_deal_type = IF deal_type \in DOMAIN sa.by_deal_type
                        THEN [@ EXCEPT ![deal_type].corrections_received = @ + 1]
                        ELSE @]

(* record_result counting in the global total only the correct results *)
TrackerRecordResult_TotalOfCorrect(trk, store, is_correct, phase, deal_type) ==
    LET store_lower == Lower(store)
        sa == Get(trk.stores, store_lower, StoreAccuracy(store_lower))
    IN  [stores |-> Put(trk.stores, store_lower,
                        add_result(sa, is_correct, phase, deal_type)),
         global_metrics |-> [trk.global_metrics EXCEPT
               !.total_deals = IF is_correct THEN @ + 1 ELSE @,
               !.correct_matches = IF is_correct THEN @ + 1 ELSE @,
               !.incorrect_matches = IF is_correct THEN @ ELSE @ + 1]]

(* AccuracyTracker.record_result, without the _save that ends it *)
TrackerRecordResult(trk, store, is_correct, phase, deal_type) ==
    LET store_lower == Lower(store)
        sa == Get(trk.stores, store_lower, StoreAccuracy(store_lower))
    IN  [stores |-> Put(trk.stores, store_lower,
                        add_result(sa, is_correct, phase, deal_type)),
         global_metrics |-> [trk.global_metrics EXCEPT
               !.total_deals = @ + 1,
               !.correct_matches = IF is_correct THEN @ + 1 ELSE @,
               !.incorrect_matches = IF is_correct THEN @ ELSE @ + 1]]

(* AccuracyTracker.record_correction, without the _save that ends it *)
TrackerRecordCorrection(trk, store, phase, deal_type) ==
    LET store_lower == Lower(store)
        sa == Get(trk.stores, store_lower, StoreAccuracy(store_lower))
    IN  [stores |-> Put(trk.stores, store_lower,
                        add_correction(sa, phase, deal_type)),
         global_metrics |-> [trk.global_metrics EXCEPT
               !.corrections_received = @ + 1]]

(* AccuracyMetrics.accuracy *)
Accuracy(metrics) ==
    IF metrics.total_deals = 0 THEN Fraction(0, 1)
    ELSE Fraction(metrics.correct_matches, metrics.total_deals)

(* AccuracyMetrics.correction_rate *)
CorrectionRate(metrics) ==
    IF metrics.total_deals = 0 THEN Fraction(0, 1)
    ELSE Fraction(metrics.corrections_received, metrics.total_deals)

(* AccuracyTracker.get_store_accuracy *)
get_store_accuracy(trk, store) ==
    LET store_lower == Lower(store)
    IN  IF store_lower \notin DOMAIN trk.stores
            THEN [store |-> store, total_deals |-> 0,
                  accuracy |-> Fraction(0, 1),
                  message |-> "No data for this store"]
            ELSE LET store_data == trk.stores[store_lower]
                 IN  [store |-> store,
                      total_deals |-> store_data.overall.total_deals,
                      accuracy |-> Accuracy(store_data.overall),
                      correction_rate |-> CorrectionRate(store_data.overall),
                      by_phase |-> [phase \in DOMAIN store_data.by_phase |->
                          [accuracy |-> Accuracy(store_data.by_phase[phase]),
                           total_deals |-> store_data.by_phase[phase].total_deals]],
                      by_deal_type |-> [dtype \in DOMAIN store_data.by_deal_type |->
                          [accuracy |-> Accuracy(store_data.by_deal_type[dtype]),
                           total_deals |-> store_data.by_deal_type[dtype].total_deals]]]

(* AccuracyTracker.get_global_accuracy *)
get_global_accuracy(trk) ==
    [total_deals |-> trk.global_metrics.total_deals,
     accuracy |-> Accuracy(trk.global_metrics),
     correction_rate |-> CorrectionRate(trk.global_metrics),
     correct_matches |-> trk.global_metrics.correct_matches,
     incorrect_matches |-> trk.global_metrics.incorrect_matches,
     corrections_received |-> trk.global_metrics.corrections_received]

(* AccuracyTracker.get_phase_accuracy: total and correct of one phase over *)
(* all stores; the accuracy is correct / total, 0.0 when total = 0.        *)
get_phase_accuracy(trk, phase) ==
    LET having == {s \in DOMAIN trk.stores : phase \in DOMAIN trk.stores[s].by_phase}
        totals == [s \in having |-> trk.stores[s].by_phase[phase].total_deals]
        corrects == [s \in having |-> trk.stores[s].by_phase[phase].correct_matches]
    IN  [total_deals |-> SumValues(totals), correct |-> SumValues(corrects)]

(* The accuracy comparison taking a phase without results as accurate *)
AccuracyAtLeast_EmptyPasses(acc, pct) ==
    IF acc.total_deals > 0
        THEN acc.correct * 100 >= pct * acc.total_deals
        ELSE TRUE

(* accuracy >= pct / 100, for the accuracy get_phase_accuracy reports *)
AccuracyAtLeast(acc, pct) ==
    IF acc.total_deals > 0
        THEN acc.correct * 100 >= pct * acc.total_deals
        ELSE 0 >= pct

(* str(phase) of the keys of by_phase in the file, and int(phase_str) *)
PhaseStr(phase) == CASE phase = 1 -> "1" [] phase = 2 -> "2" [] phase = 3 -> "3"

PhaseInt(phase_str) ==
    CASE phase_str = "1" -> 1 [] phase_str = "2" -> 2 [] phase_str = "3" -> 3

LastN(s, n) == IF Len(s) <= n THEN s ELSE SubSeq(s, Len(s) - n + 1, Len(s))

(* AccuracyTracker._save: the content of accuracy_tracker.json *)
TrackerSave(trk) ==
    [global_metrics |-> trk.global_metrics,
     stores |-> [s \in DOMAIN trk.stores |->
        LET sa == trk.stores[s]
        IN  [store_name |-> sa.store_name,
             overall |-> sa.overall,
             by_phase |-> [k \in {PhaseStr(ph) : ph \in DOMAIN sa.by_phase} |->
                 LET m == sa.by_phase[PhaseInt(k)]
                 IN  [total_deals |-> m.total_deals,
                      correct_matches |-> m.correct_matches,
                      corrections_received |-> m.corrections_received]],
             by_deal_type |-> [dtype \in DOMAIN sa.by_deal_type |->
                 LET m == sa.by_deal_type[dtype]
                 IN  [total_deals |-> m.total_deals,
                      correct_matches |-> m.correct_matches]],
             history |-> LastN(sa.history, HistoryKept)]]]

(* AccuracyTracker._load: the tracker built from accuracy_tracker.json *)
TrackerLoad(data) ==
    [global_metrics |-> data.global_metrics,
     stores |-> [s \in DOMAIN data.stores |->
        LET sd == data.stores[s]
        IN  [store_name |-> s,
             overall |-> sd.overall,
             by_phase |-> [ph \in {PhaseInt(k) : k \in DOMAIN sd.by_phase} |->
                 LET m == sd.by_phase[PhaseStr(ph)]
                 IN  AccuracyMetrics(m.total_deals, m.correct_matches, 0,
                                     m.corrections_received)],
             by_deal_type |-> [dtype \in DOMAIN sd.by_deal_type |->
                 LET m == sd.by_deal_type[dtype]
                 IN  AccuracyMetrics(m.total_deals, m.correct_matches, 0, 0)],
             history |-> sd.history]]]

----------------------------------------------------------------------------
(* ProgressiveLearner (progressive_learning.py) *)

TotalAds(ads) == SumValues(ads)

(* Phase2Guard with thresholds that must be exceeded, not reached *)
Phase2Guard_Exceeded(cfg, ads, corr) ==
    \/ TotalAds(ads) > cfg.min_ads_for_phase_2
    \/ corr > cfg.min_corrections_for_phase_2

(* The guard of the Phase 1 -> 2 transition *)
Phase2Guard(cfg, ads, corr) ==
    \/ TotalAds(ads) >= cfg.min_ads_for_phase_2
    \/ corr >= cfg.min_corrections_for_phase_2

(* Phase3Guard without the accuracy condition *)
Phase3Guard_NoAccuracy(cfg, ads, corr, trk) ==
    \/ TotalAds(ads) >= cfg.min_ads_for_phase_3
    \/ corr >= cfg.min_corrections_for_phase_3

(* The guard of the Phase 2 -> 3 transition *)
Phase3Guard(cfg, ads, corr, trk) ==
    /\ \/ TotalAds(ads) >= cfg.min_ads_for_phase_3
       \/ corr >= cfg.min_corrections_for_phase_3
    /\ AccuracyAtLeast(get_phase_accuracy(trk, 2), cfg.min_accuracy_for_phase_3)

(* _check_phase_advancement with the second transition tried after the  *)
(* first in the same call                                                  *)
CheckPhaseAdvancement_FallsThrough(phase, ads, corr, trk, data, mdl, pending, fmodel) ==
    LET same == [phase |-> phase, advanced |-> FALSE, model |-> mdl,
                 pending |-> pending, file_model |-> fmodel]
        first == phase = PHASE_1_REGEX /\ Phase2Guard(config, ads, corr)
    IN  IF (first \/ phase = PHASE_2_TEMPLATE) /\ Phase3Guard(config, ads, corr, trk)
            THEN [same EXCEPT !.phase = PHASE_3_ML, !.advanced = TRUE]
        ELSE IF first
            THEN [same EXCEPT !.phase = PHASE_2_TEMPLATE, !.advanced = TRUE]
        ELSE same

(* _check_phase_advancement assigning the wrong phase in its second branch *)
CheckPhaseAdvancement_WrongTarget(phase, ads, corr, trk, data, mdl, pending, fmodel) ==
    LET same == [phase |-> phase, advanced |-> FALSE, model |-> mdl,
                 pending |-> pending, file_model |-> fmodel]
    IN  IF phase = PHASE_1_REGEX
            THEN IF TotalAds(ads) >= config.min_ads_for_phase_2
                    \/ corr >= config.min_corrections_for_phase_2
                     THEN [same EXCEPT !.phase = PHASE_2_TEMPLATE, !.advanced = TRUE]
                     ELSE same
        ELSE IF phase = PHASE_2_TEMPLATE
            THEN IF /\ \/ TotalAds(ads) >= config.min_ads_for_phase_3
                       \/ corr >= config.min_corrections_for_phase_3
                    /\ AccuracyAtLeast(get_phase_accuracy(trk, 2),
                                       config.min_accuracy_for_phase_3)
                     THEN [same EXCEPT !.phase = PHASE_1_REGEX, !.advanced = TRUE]
                     ELSE same
        ELSE same

(* _check_phase_advancement entering Phase 3 without the initial training *)
CheckPhaseAdvancement_NoInitialTraining(phase, ads, corr, trk, data, mdl, pending, fmodel) ==
    LET same == [phase |-> phase, advanced |-> FALSE, model |-> mdl,
                 pending |-> pending, file_model |-> fmodel]
    IN  IF phase = PHASE_1_REGEX
            THEN IF TotalAds(ads) >= config.min_ads_for_phase_2
                    \/ corr >= config.min_corrections_for_phase_2
                     THEN [same EXCEPT !.phase = PHASE_2_TEMPLATE, !.advanced = TRUE]
                     ELSE same
        ELSE IF phase = PHASE_2_TEMPLATE
            THEN IF /\ \/ TotalAds(ads) >= config.min_ads_for_phase_3
                       \/ corr >= config.min_corrections_for_phase_3
                    /\ AccuracyAtLeast(get_phase_accuracy(trk, 2),
                                       config.min_accuracy_for_phase_3)
                     THEN [same EXCEPT !.phase = PHASE_3_ML, !.advanced = TRUE]
                     ELSE same
        ELSE same

(* _check_phase_advancement, on the learner state given: the phase, the    *)
(* matcher's model, the pending counter and the model file it leaves, and  *)
(* the value it returns (advanced).                                        *)
CheckPhaseAdvancement(phase, ads, corr, trk, data, mdl, pending, fmodel) ==
    LET same == [phase |-> phase, advanced |-> FALSE, model |-> mdl,
                 pending |-> pending, file_model |-> fmodel]
    IN  IF phase = PHASE_1_REGEX
            THEN IF Phase2Guard(config, ads, corr)
                     THEN [same EXCEPT !.phase = PHASE_2_TEMPLATE, !.advanced = TRUE]
                     ELSE same
        ELSE IF phase = PHASE_2_TEMPLATE
            THEN IF Phase3Guard(config, ads, corr, trk)
                     THEN LET r == IF Len(data) > 0
                                       THEN RetrainMlModel(data, mdl, pending, fmodel)
                                       ELSE [status |-> "none", model |-> mdl,
                                             pending |-> pending, file_model |-> fmodel]
                          IN  [phase |-> PHASE_3_ML, advanced |-> TRUE,
                               model |-> r.model, pending |-> r.pending,
                               file_model |-> r.file_model]
                     ELSE same
        ELSE same

(* _save_state leaving the pending counter out of the file, which          *)
(* _load_state then reads as its default 0.                                *)
SavedState_NoPending(phase, ads, corr, pending, data) ==
    [current_phase |-> phase, ads_processed |-> ads, total_corrections |-> corr,
     pending_corrections_for_retrain |-> 0,
     training_data_count |-> Len(data)]

(* The content of learner_state.json that _save_state writes *)
SavedState(phase, ads, corr, pending, data) ==
    [current_phase |-> phase, ads_processed |-> ads, total_corrections |-> corr,
     pending_corrections_for_retrain |-> pending,
     training_data_count |-> Len(data)]

(* training_data.json after _save_state: written only for a non-empty buffer *)
SavedTraining(data, ftraining) ==
    IF Len(data) > 0 THEN Some(SerializeAll(data)) ELSE ftraining

(* The learner fields after __init__ has set the defaults and _load_state  *)
(* has read the two files.                                                 *)
LoadState(fstate, ftraining) ==
    [current_phase |-> IF IsNone(fstate) THEN PHASE_1_REGEX
                       ELSE Val(fstate).current_phase,
     ads_processed |-> IF IsNone(fstate) THEN EmptyDict
                       ELSE Val(fstate).ads_processed,
     total_corrections |-> IF IsNone(fstate) THEN 0
                           ELSE Val(fstate).total_corrections,
     pending_corrections_for_retrain |->
         IF IsNone(fstate) THEN 0
         ELSE Val(fstate).pending_corrections_for_retrain,
     training_data |-> IF IsNone(ftraining) THEN <<>>
                       ELSE DeserializeAll(Val(ftraining))]

(* _deals_similar *)
deals_similar(deal1, deal2) ==
    \/ /\ TruthyFloat(deal1.price)
       /\ TruthyFloat(deal2.price)
       /\ LET p1 == Val(deal1.price)
              p2 == Val(deal2.price)
              diff == p1.num * p2.den - p2.num * p1.den
          IN  100 * (IF diff < 0 THEN -diff ELSE diff) < p1.den * p2.den
    \/ /\ deal1.raw_text # ""
       /\ deal2.raw_text # ""
       /\ \/ deal1.raw_text = deal2.raw_text
          \/ ProperSubstring(deal1.raw_text, deal2.raw_text)
          \/ ProperSubstring(deal2.raw_text, deal1.raw_text)

(* _merge_results *)
merge_results(template_deals, regex_deals) ==
    LET IsNew(regex_deal) ==
            ~\E i \in 1..Len(template_deals) :
                deals_similar(regex_deal, template_deals[i])
    IN  template_deals \o SelectSeq(regex_deals, IsNew)

RECURSIVE SumSeq(_)
SumSeq(s) == IF Len(s) = 0 THEN 0 ELSE Head(s) + SumSeq(Tail(s))

(* The fixed weight of a phase in the combined confidence, in thousandths *)
phase_weight(phase) ==
    CASE phase = PHASE_1_REGEX -> 350
      [] phase = PHASE_2_TEMPLATE -> 550
      [] phase = PHASE_3_ML -> 750

(* ProgressiveLearner._calculate_confidence: the combined confidence in    *)
(* thousandths, as a fraction.                                             *)
calculate_confidence(deals, matches, phase) ==
    IF Len(deals) = 0 THEN Fraction(0, 1)
    ELSE LET n == Len(deals)
             deal_sum == SumSeq([i \in 1..n |-> deals[i].confidence])
             m == Len(matches)
             match_sum == SumSeq([i \in 1..m |-> matches[i].match_score])
             confidence ==
                 IF m > 0
                     THEN Fraction(4 * deal_sum * m + 4 * match_sum * n
                                   + 2 * phase_weight(phase) * n * m, 10 * n * m)
                     ELSE Fraction(6 * deal_sum + 4 * phase_weight(phase) * n,
                                   10 * n)
         IN  IF FracLeq(confidence, Fraction(1000, 1)) THEN confidence
             ELSE Fraction(1000, 1)

(* What process_ad computes before it re-checks the phase guards: the      *)
(* exception raised ("None" when there is none) and the fields of the      *)
ResultOfMatches(deals, matches, phase_used) ==
    [raised |-> "None", deals |-> deals, matches |-> matches,
     phase_used |-> phase_used,
     confidence |-> calculate_confidence(deals, matches, phase_used)]

(* process_ad matching in every phase *)
ResultOfDeals_MatchesInAnyPhase(deals, has_template, use_ml, mdl, products, scores) ==
    ResultOfMatches(deals, match(products, deals, scores),
        IF use_ml THEN PHASE_3_ML
        ELSE IF has_template THEN PHASE_2_TEMPLATE
        ELSE PHASE_1_REGEX)

(* process_ad from the deals on: the matching of Phase 3 *)
ResultOfDeals(deals, has_template, use_ml, mdl, products, scores) ==
    IF use_ml /\ MatchRaises(products, deals, mdl)
        THEN [raised |-> "NotFittedError"]
    ELSE ResultOfMatches(deals,
             IF use_ml THEN match(products, deals, scores) ELSE <<>>,
             IF use_ml THEN PHASE_3_ML
             ELSE IF has_template THEN PHASE_2_TEMPLATE
             ELSE PHASE_1_REGEX)

(* process_ad from the results of the two parsers on *)
ResultOfParsers(regex, template_results, use_ml, mdl, products, scores) ==
    IF regex.raised # "None"
        THEN [raised |-> regex.raised]
    ELSE ResultOfDeals(
             IF Len(template_results) > 0
                 THEN merge_results(template_results, regex.deals)
                 ELSE regex.deals,
             Len(template_results) > 0, use_ml, mdl, products, scores)

(* ProcessingResult.                                                       *)
ProcessingResult(ad_text, store, phase, tpls, mdl, products, scores) ==
    ResultOfParsers(RegexParse(ad_text),
        IF phase >= PHASE_2_TEMPLATE
            THEN TemplateParse(ad_text, store, tpls).deals
            ELSE <<>>,
        phase >= PHASE_3_ML /\ mdl # "None" /\ Len(products) > 0,
        mdl, products, scores)

(* The last call: its name, the arguments the properties read, the fields  *)
(* of what it returned and the exception it raised ("None": it returned).  *)
Result(op, args, actions_taken, phase_advanced, ml_retrain) ==
    [op |-> op, args |-> args, actions_taken |-> actions_taken,
     phase_advanced |-> phase_advanced, ml_retrain |-> ml_retrain,
     raised |-> "None"]

Raised(op, args, exception) ==
    [op |-> op, args |-> args, actions_taken |-> <<>>,
     phase_advanced |-> FALSE, ml_retrain |-> "none", raised |-> exception]

(* The files of the data directory *)
Files == {"state", "training", "model", "tracker", "templates"}

NoArgs == [none |-> TRUE]

(* A call writes the files of order one after the other; the process may   *)
(* end while it writes the file crash ("None": it does not end), which     *)
(* open(path, 'w') has truncated and json.dump or pickle.dump has written  *)
(* in part.                                                                *)
Range(s) == {s[i] : i \in 1..Len(s)}

Index(order, file) == CHOOSE i \in 1..Len(order) : order[i] = file

Reached(order, file, crash) ==
    /\ file \in Range(order)
    /\ (crash = "None" \/ Index(order, file) <= Index(order, crash))

Write(order, file, crash, old, new) ==
    IF Reached(order, file, crash) THEN new ELSE old

UnreadableAfter(order, crash) ==
    (unreadable \ {file \in Range(order) : Reached(order, file, crash)})
        \cup (IF crash = "None" THEN {} ELSE {crash})

(* What a call leaves in last: its result, or that the process ended *)
ResultOrEnd(crash, result) ==
    IF crash = "None" THEN result
    ELSE Raised(result.op, result.args, "process_ended")

(* There is a learner to call: the process has not ended and the last      *)
(* construction did not raise.                                             *)
Alive ==
    /\ last.raised # "process_ended"
    /\ ~(last.op = "restart" /\ last.raised # "None")

(* ProgressiveLearner.process_ad; scores are the probabilities the         *)
(* classifier gives the candidates of a deal.                              *)
process_ad(ad_text, store, scores) ==
    LET store_lower == Lower(StoreOrUnknown(store))
        ads == Put(ads_processed, store_lower, Get(ads_processed, store_lower, 0) + 1)
        chk == CheckPhaseAdvancement(current_phase, ads, total_corrections,
                   tracker, training_data, model,
                   pending_corrections_for_retrain, file_model)
        args == [store |-> store, ad_text |-> ad_text]
    IN  /\ ads_processed' = ads
        /\ \E result \in {ProcessingResult(ad_text, store, current_phase,
                                templates, model, catalog, scores)} :
           IF result.raised # "None"
               THEN /\ last' = Raised("process_ad", args, result.raised)
                    /\ UNCHANGED <<current_phase, model,
                                   pending_corrections_for_retrain, file_model,
                                   unreadable>>
               ELSE /\ current_phase' = chk.phase
                    /\ model' = chk.model
                    /\ pending_corrections_for_retrain' = chk.pending
                    /\ file_model' = chk.file_model
                    /\ unreadable' = IF chk.file_model # file_model
                                         THEN unreadable \ {"model"}
                                         ELSE unreadable
                    /\ last' = [op |-> "process_ad", args |-> args,
                                actions_taken |-> <<>>,
                                phase_advanced |-> chk.advanced,
                                ml_retrain |-> "none", raised |-> "None",
                                phase_at_call |-> current_phase,
                                deals |-> result.deals,
                                matches |-> result.matches,
                                phase_used |-> result.phase_used,
                                confidence |-> result.confidence]
        /\ UNCHANGED <<envVars, classVars, corrections, total_corrections, training_data,
                       tracker, templates, file_state, file_training,
                       file_tracker, file_templates>>

(* __init__ puts the StoreTemplate objects of the class attribute        *)
(* DEFAULT_TEMPLATES into self.templates, so what the parser changes in    *)
(* a template it did not load from its file, it changes in the class.      *)
SharedAfter(tpls) ==
    [s \in DOMAIN default_templates |->
        IF s \in aliased THEN tpls[s] ELSE default_templates[s]]

(* ProgressiveLearner.learn_from_correction *)
learn_from_correction(deal_id, original_deal, corrected_deal, raw_text, store, original_match, corrected_product, crash) ==
    LET correction == [correction_id |-> deal_id, store |-> store,
                       phase_at_correction |-> current_phase]
        corr == total_corrections + 1
        pending1 == pending_corrections_for_retrain + 1
        tpls == TemplateLearn(templates, store, original_deal, corrected_deal,
                              raw_text)
        add == ~IsNone(original_match) /\ ~IsNone(corrected_product)
        data == IF add
                    THEN training_data \o
                         <<[deal |-> original_deal,
                            product |-> [id |-> Val(original_match).product_id,
                                         name |-> Val(original_match).product_name,
                                         category |-> Val(original_match).category],
                            is_match |-> FALSE],
                           [deal |-> corrected_deal,
                            product |-> Val(corrected_product),
                            is_match |-> TRUE]>>
                    ELSE training_data
        trk == TrackerRecordCorrection(tracker, store, current_phase,
                                       original_deal.deal_type)
        retrain == current_phase = PHASE_3_ML
                   /\ pending1 >= config.ml_retrain_threshold
        r == IF retrain
                 THEN RetrainMlModel(data, model, pending1, file_model)
                 ELSE [status |-> "none", model |-> model, pending |-> pending1,
                       file_model |-> file_model]
        chk == CheckPhaseAdvancement(current_phase, ads_processed, corr, trk,
                   data, r.model, r.pending, r.file_model)
        actions == <<"template_updated">>
                   \o (IF add THEN <<"training_data_added">> ELSE <<>>)
                   \o (IF retrain THEN <<"ml_model_retrained">> ELSE <<>>)
        model_saved == /\ retrain \/ (chk.advanced /\ chk.phase = PHASE_3_ML)
                       /\ sklearn_available
                       /\ Len(data) >= MinTrainingExamples
                       /\ TrainOutcome(data) = "fitted"
        order == <<"templates", "tracker">>
                 \o (IF model_saved THEN <<"model">> ELSE <<>>)
                 \o <<"state">>
                 \o (IF Len(data) > 0 THEN <<"training">> ELSE <<>>)
    IN  /\ crash \in {"None"} \cup Range(order)
        /\ corrections' = Append(corrections, correction)
        /\ total_corrections' = corr
        /\ training_data' = data
        /\ templates' = tpls
        /\ default_templates' = SharedAfter(tpls)
        /\ file_templates' = Some(SaveTemplates(tpls))
        /\ tracker' = trk
        /\ file_tracker' = Write(order, "tracker", crash, file_tracker,
                                 Some(TrackerSave(trk)))
        /\ current_phase' = chk.phase
        /\ model' = chk.model
        /\ pending_corrections_for_retrain' = chk.pending
        /\ file_model' = Write(order, "model", crash, file_model, chk.file_model)
        /\ file_state' = Write(order, "state", crash, file_state,
                               Some(SavedState(chk.phase, ads_processed, corr,
                                               chk.pending, data)))
        /\ file_training' = Write(order, "training", crash, file_training,
                                  SavedTraining(data, file_training))
        /\ unreadable' = UnreadableAfter(order, crash)
        /\ last' = ResultOrEnd(crash,
                       Result("learn_from_correction",
                           [original_match |-> ~IsNone(original_match),
                            corrected_product |-> ~IsNone(corrected_product),
                            store |-> store, raw_text |-> raw_text],
                           actions, chk.advanced, r.status))
        /\ UNCHANGED <<envVars, aliased, ads_processed>>

(* ProgressiveLearner.record_result *)
record_result(store, deal, is_correct, crash) ==
    LET trk == TrackerRecordResult(tracker, store, is_correct, current_phase,
                                   deal.deal_type)
        order == <<"tracker">>
    IN  /\ crash \in {"None"} \cup Range(order)
        /\ tracker' = trk
        /\ file_tracker' = Some(TrackerSave(trk))
        /\ unreadable' = UnreadableAfter(order, crash)
        /\ last' = ResultOrEnd(crash,
                       Result("record_result", [is_correct |-> is_correct], <<>>,
                              FALSE, "none"))
        /\ UNCHANGED <<envVars, classVars, current_phase, corrections, ads_processed,
                       total_corrections, training_data,
                       pending_corrections_for_retrain, model, templates,
                       file_state, file_training, file_model, file_templates>>

(* ProgressiveLearner.force_phase *)
force_phase(phase, crash) ==
    LET order == IF phase \in {1, 2, 3}
                     THEN <<"state">> \o (IF Len(training_data) > 0
                                              THEN <<"training">> ELSE <<>>)
                     ELSE <<>>
    IN  /\ crash \in {"None"} \cup Range(order)
        /\ IF phase \in {1, 2, 3}
               THEN /\ current_phase' = phase
                    /\ file_state' = Some(SavedState(phase, ads_processed,
                           total_corrections, pending_corrections_for_retrain,
                           training_data))
                    /\ file_training' = Write(order, "training", crash,
                           file_training,
                           SavedTraining(training_data, file_training))
               ELSE UNCHANGED <<current_phase, file_state, file_training>>
        /\ unreadable' = UnreadableAfter(order, crash)
        /\ last' = ResultOrEnd(crash,
                       Result("force_phase", [phase |-> phase], <<>>, FALSE,
                              "none"))
        /\ UNCHANGED <<envVars, classVars, corrections, ads_processed, total_corrections,
                       training_data, pending_corrections_for_retrain, model,
                       tracker, templates, file_model, file_tracker,
                       file_templates>>

(* TemplateDealParser.update_template_accuracy on the learner's parser *)
update_template_accuracy(store, accuracy) ==
    /\ templates' = TemplateAccuracyUpdate(templates, store, accuracy)
    /\ default_templates' = SharedAfter(templates')
    /\ IF Lower(store) \in DOMAIN templates
           THEN /\ file_templates' = Some(SaveTemplates(templates'))
                /\ unreadable' = unreadable \ {"templates"}
           ELSE UNCHANGED <<file_templates, unreadable>>
    /\ last' = Result("update_template_accuracy", [store |-> store], <<>>,
                      FALSE, "none")
    /\ UNCHANGED <<envVars, aliased, current_phase, corrections, ads_processed,
                   total_corrections, training_data,
                   pending_corrections_for_retrain, model, tracker, file_state,
                   file_training, file_model, file_tracker>>

(* What a constructor reads of a file: nothing when the file is not there  *)
(* or json.load raises on it.                                              *)
Readable(file, content) == IF file \in unreadable THEN None ELSE content

(* The exception ProgressiveLearner.__init__ raises on the data directory  *)
(* ("None": it returns): DealMatcher.load_model does not catch what        *)
(* pickle.load raises, and _load_state does not catch the ValueError of    *)
(* LearningPhase(value) for a value that is no phase.                      *)
InitRaises ==
    IF ~IsNone(file_model) /\ "model" \in unreadable THEN "UnpicklingError"
    ELSE IF /\ ~IsNone(Readable("state", file_state))
            /\ Val(file_state).current_phase \notin
                   {PHASE_1_REGEX, PHASE_2_TEMPLATE, PHASE_3_ML}
        THEN "ValueError"
    ELSE "None"

(* The process ends and ProgressiveLearner.__init__ runs again on the same *)
(* data directory with the same configuration.                             *)
Restart ==
    LET raises == InitRaises # "None"
        loaded == IF raises THEN LoadState(None, None)
                  ELSE LoadState(Readable("state", file_state),
                                 Readable("training", file_training))
    IN  /\ templates' = IF raises THEN DEFAULT_TEMPLATES
                        ELSE LoadTemplates(file_templates,
                                           "templates" \notin unreadable)
        /\ default_templates' = DEFAULT_TEMPLATES
        /\ aliased' = IF raises \/ IsNone(Readable("templates", file_templates))
                           THEN DOMAIN DEFAULT_TEMPLATES
                           ELSE (DOMAIN DEFAULT_TEMPLATES)
                                    \ (DOMAIN Val(file_templates))
        /\ model' = IF IsNone(file_model) \/ raises THEN "None"
                    ELSE Val(file_model)
        /\ tracker' = IF IsNone(Readable("tracker", file_tracker)) \/ raises
                          THEN NewTracker
                          ELSE TrackerLoad(Val(file_tracker))
        /\ current_phase' = loaded.current_phase
        /\ corrections' = <<>>
        /\ ads_processed' = loaded.ads_processed
        /\ total_corrections' = loaded.total_corrections
        /\ training_data' = loaded.training_data
        /\ pending_corrections_for_retrain' = loaded.pending_corrections_for_retrain
        /\ last' = IF raises THEN Raised("restart", NoArgs, InitRaises)
                   ELSE Result("restart", NoArgs, <<>>, FALSE, "none")
        /\ UNCHANGED <<envVars, file_state, file_training, file_model,
                       file_tracker, file_templates, unreadable>>

(* The process ends and before the next one starts the content of a file of the data directory is    *)
(* damaged: truncated or overwritten with bytes that do not parse.         *)
Corrupt(file) ==
    /\ file \notin unreadable
    /\ CASE file = "state" -> ~IsNone(file_state)
         [] file = "training" -> ~IsNone(file_training)
         [] file = "model" -> ~IsNone(file_model)
         [] file = "tracker" -> ~IsNone(file_tracker)
         [] file = "templates" -> ~IsNone(file_templates)
    /\ unreadable' = unreadable \cup {file}
    /\ last' = Raised("corrupt", [file |-> file], "process_ended")
    /\ UNCHANGED <<envVars, classVars, current_phase, corrections, ads_processed,
                   total_corrections, training_data,
                   pending_corrections_for_retrain, model, tracker, templates,
                   file_state, file_training, file_model, file_tracker,
                   file_templates>>

(* The process ends and before the next one starts learner_state.json is  *)
(* replaced by a well-formed file whose current_phase is no phase.         *)
WriteInvalidPhase(phase) ==
    /\ ~IsNone(Readable("state", file_state))
    /\ phase \notin {PHASE_1_REGEX, PHASE_2_TEMPLATE, PHASE_3_ML}
    /\ file_state' = Some([Val(file_state) EXCEPT !.current_phase = phase])
    /\ last' = Raised("write_invalid_phase", [phase |-> phase], "process_ended")
    /\ UNCHANGED <<envVars, classVars, current_phase, corrections, ads_processed,
                   total_corrections, training_data,
                   pending_corrections_for_retrain, model, tracker, templates,
                   file_training, file_model, file_tracker, file_templates,
                   unreadable>>

----------------------------------------------------------------------------
(* The inputs the callers supply *)

(* A configuration with low thresholds, as the fixture of                  *)
(* test_progressive_learning.py uses one to reach the later phases.        *)
SmallConfig ==
    [min_ads_for_phase_2 |-> 1,
     min_corrections_for_phase_2 |-> 2,
     min_ads_for_phase_3 |-> 2,
     min_corrections_for_phase_3 |-> 3,
     min_accuracy_for_phase_3 |-> 55,
     ml_retrain_threshold |-> 2]

(* A deal as RegexDealParser extracts it from "Chicken Breast $9.99/lb" *)
ParsedDeal == RegexParse("Chicken Breast $9.99/lb").deals[1]

(* The user's correction of it, as the /ml/learn endpoint builds it *)
CorrectedDeal ==
    EndpointDeal("Chicken Breast $5.99/lb", "price", "Chicken Breast",
                 Some(Fraction(599, 100)))

(* The match the system had proposed: the fields of ProductMatch the       *)
(* learner reads.                                                          *)
WrongMatch ==
    [product_id |-> "p2", product_name |-> "Chicken Thighs",
     category |-> "protein"]

GoodProduct == [id |-> "p1", name |-> "Chicken Breast"]

(* A catalog product whose purchase_frequency is not finite *)
InfProduct == [id |-> "p3", name |-> "Chicken Wings", purchase_frequency |-> "inf"]

AdStores == {"", "Costco"}

(* Store names of the calls that reach the tracker: one store in two      *)
(* spellings and another store.                                            *)
TrackerStores == {"Costco", "COSTCO", "Aldi"}

(* The stores reports are asked for: those, and one no call names *)
ReportStores == TrackerStores \cup {"Safeway"}

(* Ad texts: empty, a malformed price, unit prices, multi-buys (one with   *)
(* the quantity 0), percent discounts with and without a product, a BOGO.  *)
AdTexts ==
    {"", "$abc", "Chicken Breast $9.99/lb", "Chicken Breast $5.99/lb",
     "Apples 3 for $6.00", "0 for $5.00", "Soda  25% off", "25% off", "BOGO"}

(* A catalog with an exact-name match for the chicken deals and a second   *)
(* product its search returns with it.                                     *)
Catalog ==
    <<[id |-> "p1", name |-> "Chicken Breast"],
      [id |-> "p2", name |-> "Chicken Thighs"]>>

(* The probabilities the classifier may give the candidates of a deal, in  *)
(* thousandths.                                                            *)
Scores == {<<0, 1000>>, <<1000, 1000>>}

(* The accuracy a caller reports for a template, in hundredths *)
Accuracies == {100}

Matches == {None, Some(WrongMatch)}

TotalResults == tracker.global_metrics.total_deals

----------------------------------------------------------------------------
(* The learner on a fresh data directory, and its calls in any order *)

InitEnv(configs, backends, catalogs) ==
    /\ config \in configs
    /\ sklearn_available \in backends
    /\ catalog \in catalogs
    /\ default_templates = DEFAULT_TEMPLATES
    /\ aliased = DOMAIN DEFAULT_TEMPLATES
    /\ current_phase = PHASE_1_REGEX
    /\ corrections = <<>>
    /\ ads_processed = EmptyDict
    /\ total_corrections = 0
    /\ training_data = <<>>
    /\ pending_corrections_for_retrain = 0
    /\ model = "None"
    /\ tracker = NewTracker
    /\ templates = DEFAULT_TEMPLATES
    /\ file_state = None
    /\ file_training = None
    /\ file_model = None
    /\ file_tracker = None
    /\ file_templates = None
    /\ unreadable = {}
    /\ last = Result("init", NoArgs, <<>>, FALSE, "none")

Init == InitEnv({SmallConfig}, {TRUE}, {<<>>})

(* The same, with and without scikit-learn installed *)
InitTrain == InitEnv({SmallConfig}, BOOLEAN, {<<>>})

ProcessAd(max_ads, stores) ==
    /\ TotalAds(ads_processed) < max_ads
    /\ \E store \in stores : process_ad("Chicken Breast $9.99/lb", store, <<>>)

LearnFromCorrection(max_corrections, matches, products) ==
    /\ total_corrections < max_corrections
    /\ \E original_match \in matches, corrected_product \in products :
          learn_from_correction("deal_1", ParsedDeal, CorrectedDeal,
              "Chicken Breast $5.99/lb", "Costco", original_match,
              corrected_product, "None")

RecordResult(max_results, outcomes) ==
    /\ TotalResults < max_results
    /\ \E is_correct \in outcomes :
          record_result("Costco", ParsedDeal, is_correct, "None")

ForcePhase == \E phase \in 0..4 : force_phase(phase, "None")

(* Normal operation of one process *)
Next ==
    \/ ProcessAd(MaxAds, {"Costco"})
    \/ LearnFromCorrection(MaxCorrections, Matches, {None, Some(GoodProduct)})
    \/ RecordResult(MaxResults, BOOLEAN)

Spec == Init /\ [][Next]_vars

(* Normal operation of one process, every correction with a match and a    *)
(* product, some of the products not fit for training.                     *)
NextTrain ==
    \/ ProcessAd(MaxAdsTrain, {"Costco"})
    \/ LearnFromCorrection(MaxCorrectionsTrain, {Some(WrongMatch)},
                           {Some(GoodProduct), Some(InfProduct)})
    \/ RecordResult(MaxResultsTrain, {TRUE})

SpecTrain == InitTrain /\ [][NextTrain]_vars

(* Normal operation of one process under the default configuration *)
InitDefault == InitEnv({DefaultConfig}, {TRUE}, {<<>>})

NextDefault ==
    \/ ProcessAd(MaxAdsDefault, {"Costco"})
    \/ LearnFromCorrection(MaxCorrectionsDefault, {None}, {None})

SpecDefault == InitDefault /\ [][NextDefault]_vars

(* Processes that follow one another on one data directory *)
NextRestart ==
    \/ ProcessAd(MaxAdsRestart, AdStores)
    \/ LearnFromCorrection(MaxCorrectionsRestart, {Some(WrongMatch)},
                           {None, Some(GoodProduct)})
    \/ RecordResult(MaxResultsRestart, BOOLEAN)
    \/ Restart

SpecRestart == Init /\ [][NextRestart]_vars

(* The same, with force_phase *)
NextForce ==
    \/ ProcessAd(MaxAdsForce, AdStores)
    \/ LearnFromCorrection(MaxCorrectionsForce, {Some(WrongMatch)}, {None})
    \/ ForcePhase
    \/ Restart

SpecForce == Init /\ [][NextForce]_vars

(* Ads of every kind in every phase, on a learner with a catalog: the     *)
(* phases are reached by corrections and by force_phase.                   *)
InitAds == InitEnv({SmallConfig}, {TRUE}, {Catalog})

ProcessAnyAd(max_ads) ==
    /\ TotalAds(ads_processed) < max_ads
    /\ \E ad_text \in AdTexts, store \in AdStores, scores \in Scores :
          process_ad(ad_text, store, scores)

UpdateTemplateAccuracy ==
    \E accuracy \in Accuracies : update_template_accuracy("Costco", accuracy)

NextAds ==
    \/ ProcessAnyAd(MaxAdsAds)
    \/ LearnFromCorrection(MaxCorrectionsAds, {Some(WrongMatch)}, {Some(GoodProduct)})
    \/ force_phase(PHASE_3_ML, "None")
    \/ UpdateTemplateAccuracy

SpecAds == InitAds /\ [][NextAds]_vars

(* Results and corrections for several stores, in one process *)
NextTracker ==
    \/ /\ TotalResults < MaxResultsTracker
       /\ \E store \in TrackerStores, is_correct \in BOOLEAN :
             record_result(store, ParsedDeal, is_correct, "None")
    \/ /\ total_corrections < MaxCorrectionsTracker
       /\ \E store \in TrackerStores :
             learn_from_correction("deal_1", ParsedDeal, CorrectedDeal,
                 "Chicken Breast $5.99/lb", store, None, None, "None")

SpecTracker == Init /\ [][NextTracker]_vars

(* One process recording results for one store, more of them than the     *)
(* saved history keeps                                                     *)
NextHistory == RecordResult(MaxResultsHistory, {TRUE})

SpecHistory == Init /\ [][NextHistory]_vars

(* Processes that follow one another on one data directory, a process     *)
(* ending normally, inside a save, or with a file damaged afterwards       *)
SavingCalls == {"learn_from_correction", "record_result", "force_phase"}

(* Corrections are counted in the learner, the buffer, the tracker and the *)
(* template; a restart on damaged files resets some of the counts, so the  *)
(* bound is on all of them.                                                *)
CorrectionsSeen ==
    {total_corrections, Len(training_data) \div 2,
     tracker.global_metrics.corrections_received,
     templates["costco"].sample_count}

NextCrash ==
    \/ /\ Alive
       /\ IsNone(file_model)
       /\ \A seen \in CorrectionsSeen : seen < MaxCorrectionsCrash
       /\ \E crash \in {"None", "templates", "tracker", "model"} :
             learn_from_correction("deal_1", ParsedDeal, CorrectedDeal,
                 "Chicken Breast $5.99/lb", "Costco", Some(WrongMatch),
                 Some(GoodProduct), crash)
    \/ /\ Alive
       /\ \E crash \in {"None", "state", "training"} :
             force_phase(PHASE_3_ML, crash)
    \/ Restart
    \/ /\ ~IsNone(file_model)
       /\ \E file \in Files : Corrupt(file)
    \/ WriteInvalidPhase(InvalidPhase)

SpecCrash == Init /\ [][NextCrash]_vars

----------------------------------------------------------------------------
(* Properties *)

LearnerCalls == {"process_ad", "learn_from_correction"}

(* The state of the learner that learner_state.json holds *)
FileHoldsLearnerState ==
    /\ ~IsNone(file_state)
    /\ Val(file_state).current_phase = current_phase
    /\ Val(file_state).ads_processed = ads_processed
    /\ Val(file_state).total_corrections = total_corrections
    /\ Val(file_state).pending_corrections_for_retrain =
           pending_corrections_for_retrain

(* C1: in one process, without force_phase, no call of process_ad,         *)
(* learn_from_correction or record_result lowers current_phase.            *)
C1_PhaseNeverDecreases == [][current_phase' >= current_phase]_vars

C1_Witness ==
    /\ current_phase = PHASE_3_ML
    /\ last.op \in LearnerCalls
    /\ ~last.phase_advanced
    /\ total_corrections > 0
    /\ TotalAds(ads_processed) > 0

(* C2: under the default configuration, from a fresh learner, the learner  *)
(* is in Phase 1 exactly while fewer than 5 ads and fewer than 20          *)
(* corrections have been processed.                                        *)
C2_Phase1UntilThreshold ==
    (current_phase = PHASE_1_REGEX)
        <=> (TotalAds(ads_processed) < 5 /\ total_corrections < 20)

C2_Witness ==
    /\ TotalAds(ads_processed) = 4
    /\ total_corrections = 19
    /\ current_phase = PHASE_1_REGEX
    /\ last.op \in LearnerCalls

(* The Phase 2 -> 3 guard of the claim, read off the learner's counters    *)
(* and the tracker's Phase-2 metrics of all stores.                        *)
C3_Guard(cfg, ads, corr, trk) ==
    LET stores == {s \in DOMAIN trk.stores : 2 \in DOMAIN trk.stores[s].by_phase}
        total == SumValues([s \in stores |-> trk.stores[s].by_phase[2].total_deals])
        correct == SumValues([s \in stores |->
                                 trk.stores[s].by_phase[2].correct_matches])
    IN  /\ \/ SumValues(ads) >= cfg.min_ads_for_phase_3
           \/ corr >= cfg.min_corrections_for_phase_3
        /\ IF total > 0
               THEN 100 * correct >= cfg.min_accuracy_for_phase_3 * total
               ELSE cfg.min_accuracy_for_phase_3 <= 0

(* C3: a process_ad or learn_from_correction call that starts in Phase 2   *)
(* ends in Phase 3 if and only if, with the call's own counter update,     *)
(* (ads >= min_ads_for_phase_3 or corrections >=                           *)
(* min_corrections_for_phase_3) and the Phase-2 accuracy over all stores   *)
(* is >= min_accuracy_for_phase_3.                                         *)
C3_Phase3IffGuard ==
    [][(last'.op \in LearnerCalls /\ current_phase = PHASE_2_TEMPLATE)
         => ((current_phase' = PHASE_3_ML)
               <=> C3_Guard(config, ads_processed', total_corrections', tracker'))]_vars

C3_Witness ==
    /\ last.op \in LearnerCalls
    /\ last.phase_advanced
    /\ current_phase = PHASE_3_ML

C5_PersistedAfterEveryCall ==
    (\/ last.op \in LearnerCalls
     \/ (last.op = "force_phase" /\ last.args.phase \in {1, 2, 3}))
        => FileHoldsLearnerState

(* C6: without force_phase, the learner constructed at a restart is in a   *)
(* phase not lower than the phase the learner before it had reached.       *)
C6_PhaseSurvivesRestart ==
    [][last'.op = "restart" => current_phase' >= current_phase]_vars

(* C7: a learner constructed right after the _save_state of                *)
(* learn_from_correction or force_phase has the same current_phase,        *)
(* ads_processed, total_corrections and pending_corrections_for_retrain    *)
(* as the learner that saved.                                              *)
C7_CountersRoundTrip ==
    [][(/\ last'.op = "restart"
        /\ \/ last.op = "learn_from_correction"
           \/ (last.op = "force_phase" /\ last.args.phase \in {1, 2, 3}))
         => /\ current_phase' = current_phase
            /\ ads_processed' = ads_processed
            /\ total_corrections' = total_corrections
            /\ pending_corrections_for_retrain' = pending_corrections_for_retrain]_vars

C7_Witness ==
    /\ last.op = "restart"
    /\ FileHoldsLearnerState
    /\ current_phase >= PHASE_2_TEMPLATE
    /\ DOMAIN ads_processed = {"costco", "unknown"}
    /\ total_corrections > 0
    /\ pending_corrections_for_retrain > 0

C8_SameDeal(d1, d2) ==
    /\ d1.raw_text = d2.raw_text
    /\ d1.deal_type = d2.deal_type
    /\ d1.product_name = d2.product_name
    /\ d1.price = d2.price
    /\ d1.unit = d2.unit
    /\ d1.quantity = d2.quantity
    /\ d1.discount_amount = d2.discount_amount
    /\ d1.discount_percent = d2.discount_percent
    /\ d1.original_price = d2.original_price
    /\ d1.confidence = d2.confidence
    /\ d1.metadata = d2.metadata

(* C8: the buffered training examples are the same after a restart: same   *)
(* length and order, same product, same is_match, and a deal equal in      *)
(* every field.                                                            *)
C8_BufferRoundTrip ==
    [][last'.op = "restart"
         => /\ Len(training_data') = Len(training_data)
            /\ \A i \in 1..Len(training_data) :
                  /\ training_data'[i].product = training_data[i].product
                  /\ training_data'[i].is_match = training_data[i].is_match
                  /\ C8_SameDeal(training_data'[i].deal, training_data[i].deal)]_vars

(* C9: in every state, also after a restart, the number of                 *)
(* CorrectionRecords in the log equals total_corrections.                  *)
C9_LogHoldsEveryCorrection == Len(corrections) = total_corrections

(* C10: a learn_from_correction call with a corrected product, with or     *)
(* without an original match, appends exactly two examples (a negative     *)
(* one for the original deal, a positive one for the corrected deal) and   *)
(* lists 'training_data_added'; a call without one leaves the buffer.      *)
C10_ProductAddsTwoExamples ==
    [][last'.op = "learn_from_correction"
         => IF last'.args.corrected_product
                THEN /\ Len(training_data') = Len(training_data) + 2
                     /\ SubSeq(training_data', 1, Len(training_data)) = training_data
                     /\ training_data'[Len(training_data) + 1].deal = ParsedDeal
                     /\ ~training_data'[Len(training_data) + 1].is_match
                     /\ training_data'[Len(training_data) + 2].deal = CorrectedDeal
                     /\ training_data'[Len(training_data) + 2].is_match
                     /\ \E i \in 1..Len(last'.actions_taken) :
                            last'.actions_taken[i] = "training_data_added"
                ELSE training_data' = training_data]_vars

C12_ProcessAdNeverRaises == last.op = "process_ad" => last.raised = "None"

(* C13: every process_ad call that returns, in every phase, reports        *)
(* confidences in [0, 1]: the confidence of each deal of the result,       *)
(* whichever parser scored it, and the combined confidence of the result   *)
(* (thousandths: 0 to 1000).                                               *)
C13_ConfidencesInUnitInterval ==
    (last.op = "process_ad" /\ last.raised = "None")
        => /\ \A i \in 1..Len(last.deals) :
                 /\ 0 <= last.deals[i].confidence
                 /\ last.deals[i].confidence <= 1000
           /\ FracLeq(Fraction(0, 1), last.confidence)
           /\ FracLeq(last.confidence, Fraction(1000, 1))

(* A Phase 3 result with matches, a template deal and a custom-pattern     *)
(* deal, scored with a template accuracy above 0                           *)
C13_Witness ==
    /\ last.op = "process_ad"
    /\ last.raised = "None"
    /\ last.phase_used = PHASE_3_ML
    /\ Len(last.matches) > 0
    /\ templates["costco"].accuracy > 0
    /\ \E i \in 1..Len(last.deals) :
          Get(last.deals[i].metadata, "source", "None") = "custom_pattern"
    /\ \E i \in 1..Len(last.deals) :
          Get(last.deals[i].metadata, "source", "None") = "template"
    /\ \E i \in 1..Len(last.deals) :
          Get(last.deals[i].metadata, "source", "None") = "None"

(* The deal of one result that is the deal of another: the same text of    *)
(* the ad read as the same type of deal                                    *)
C14_SameDeal(d1, d2) ==
    /\ d1.raw_text = d2.raw_text
    /\ d1.deal_type = d2.deal_type
    /\ d1.position = d2.position

(* What process_ad returns for the ad of the last call under Phase 1 *)
C14_Phase1Result ==
    ProcessingResult(last.args.ad_text, last.args.store, PHASE_1_REGEX,
                     templates, model, catalog, <<>>)

(* C14: an ad processed in forced Phase 3, with a trained matcher and a    *)
(* catalog product of exactly the deal's name, reports for each deal a     *)
(* confidence at least as high as the one Phase 1 reports for the same     *)
(* deal of the same ad.                                                    *)
C14_Phase3AtLeastPhase1 ==
    (/\ last.op = "process_ad"
     /\ last.raised = "None"
     /\ last.phase_at_call = PHASE_3_ML
     /\ last.phase_used = PHASE_3_ML
     /\ model = "trained")
        => \A i \in 1..Len(C14_Phase1Result.deals), j \in 1..Len(last.deals) :
               (/\ C14_SameDeal(C14_Phase1Result.deals[i], last.deals[j])
                /\ \E k \in 1..Len(catalog) :
                       catalog[k].name = last.deals[j].product_name)
                   => last.deals[j].confidence
                          >= C14_Phase1Result.deals[i].confidence

(* The results recorded for a store in this process, from the events of    *)
(* the store's history, and the corrections, from the learner's log        *)
C15_Results(store_lower) ==
    IF store_lower \in DOMAIN tracker.stores
        THEN tracker.stores[store_lower].history ELSE <<>>

C15_Correct(results) ==
    Cardinality({i \in 1..Len(results) : results[i].is_correct})

C15_Corrections(store_lower) ==
    Cardinality({i \in 1..Len(corrections) :
                    Lower(corrections[i].store) = store_lower})

C15_Sum(f) == SumValues(f)

C15_Rate(count, total) ==
    IF total > 0 THEN Fraction(count, total) ELSE Fraction(0, 1)

(* What the claim says of the report on one store, but for its             *)
(* correction_rate                                                         *)
C15_StoreReport(store) ==
    LET report == get_store_accuracy(tracker, store)
        results == C15_Results(Lower(store))
    IN  /\ report.total_deals = Len(results)
        /\ report.accuracy = C15_Rate(C15_Correct(results), Len(results))

C15_GlobalReport ==
    LET report == get_global_accuracy(tracker)
        known == DOMAIN tracker.stores
        total == C15_Sum([s \in known |-> Len(C15_Results(s))])
        correct == C15_Sum([s \in known |-> C15_Correct(C15_Results(s))])
    IN  /\ report.total_deals = total
        /\ report.accuracy = C15_Rate(correct, total)
        /\ report.correction_rate = C15_Rate(Len(corrections), total)

(* C15 as claimed: after any record_result and record_correction calls the *)
(* global report and the report on every store, in any spelling of its     *)
(* name and also for a store with no data, give total_deals = the number   *)
(* of results recorded in that scope, accuracy = correct / total and       *)
(* correction_rate = corrections / total, both 0.0 when total = 0.         *)
C15_ReportsOfEveryStore ==
    /\ C15_GlobalReport
    /\ \A store \in ReportStores :
          /\ C15_StoreReport(store)
          /\ "correction_rate" \in DOMAIN get_store_accuracy(tracker, store)
          /\ get_store_accuracy(tracker, store).correction_rate =
                 C15_Rate(C15_Corrections(Lower(store)),
                          Len(C15_Results(Lower(store))))

(* C15 as amended: the same, the report on a store with no data giving     *)
(* total_deals = 0 and accuracy = 0.0 and no correction_rate.              *)
C15_ReportsOfStoresWithData ==
    /\ C15_GlobalReport
    /\ \A store \in ReportStores :
          /\ C15_StoreReport(store)
          /\ IF Lower(store) \in DOMAIN tracker.stores
                 THEN get_store_accuracy(tracker, store).correction_rate =
                          C15_Rate(C15_Corrections(Lower(store)),
                                   Len(C15_Results(Lower(store))))
                 ELSE "correction_rate" \notin
                          DOMAIN get_store_accuracy(tracker, store)

(* One store with a correct and an incorrect result recorded under two     *)
(* spellings and a correction, another store with no data                  *)
C15_Witness ==
    /\ "costco" \in DOMAIN tracker.stores
    /\ tracker.stores["costco"].overall.total_deals = 2
    /\ tracker.stores["costco"].overall.correct_matches = 1
    /\ tracker.stores["costco"].overall.corrections_received = 1
    /\ "aldi" \notin DOMAIN tracker.stores
    /\ last.op = "record_result"

(* The counters of a metrics record other than corrections_received *)
C16_ResultCounters(metrics) ==
    <<metrics.total_deals, metrics.correct_matches, metrics.incorrect_matches>>

C16_AllResultCounters(by_key) ==
    [k \in DOMAIN by_key |-> C16_ResultCounters(by_key[k])]

(* The entry of a store, the empty one when the tracker has none *)
C16_Store(trk, store_lower) ==
    Get(trk.stores, store_lower, StoreAccuracy(store_lower))

(* C16: record_correction, as learn_from_correction calls it, leaves       *)
(* total_deals, correct_matches and incorrect_matches unchanged in the     *)
(* global metrics and in the overall, by-phase and by-deal-type metrics of *)
(* every store, appends to no history, and adds exactly one to the global  *)
(* corrections_received and to that of the store's overall metrics.        *)
C16_CorrectionCountersOnly ==
    [][last'.op = "learn_from_correction"
         => /\ C16_ResultCounters(tracker'.global_metrics) =
                   C16_ResultCounters(tracker.global_metrics)
            /\ tracker'.global_metrics.corrections_received =
                   tracker.global_metrics.corrections_received + 1
            /\ DOMAIN tracker'.stores =
                   DOMAIN tracker.stores \cup {Lower(last'.args.store)}
            /\ \A s \in DOMAIN tracker'.stores :
                   LET before == C16_Store(tracker, s)
                       after == tracker'.stores[s]
                   IN  /\ C16_ResultCounters(after.overall) =
                              C16_ResultCounters(before.overall)
                       /\ C16_AllResultCounters(after.by_phase) =
                              C16_AllResultCounters(before.by_phase)
                       /\ C16_AllResultCounters(after.by_deal_type) =
                              C16_AllResultCounters(before.by_deal_type)
                       /\ after.history = before.history
                       /\ after.overall.corrections_received =
                              before.overall.corrections_received
                              + (IF s = Lower(last'.args.store) THEN 1 ELSE 0)]_vars

(* A correction for a store that has results of the phase and deal type of *)
(* the correction, beside another store with results                       *)
C16_Witness ==
    /\ last.op = "learn_from_correction"
    /\ last.args.store = "COSTCO"
    /\ "costco" \in DOMAIN tracker.stores
    /\ tracker.stores["costco"].overall.total_deals = 1
    /\ tracker.stores["costco"].overall.corrections_received = 1
    /\ tracker.stores["costco"].by_phase[PHASE_1_REGEX].corrections_received = 1
    /\ Len(tracker.stores["costco"].history) = 1
    /\ "aldi" \in DOMAIN tracker.stores
    /\ tracker.stores["aldi"].overall.total_deals = 1

(* C17: after any number of record_result calls the history of every store *)
(* holds at most 1000 entries, in memory and in accuracy_tracker.json.     *)
C17_HistoryBounded ==
    /\ \A s \in DOMAIN tracker.stores :
          Len(tracker.stores[s].history) <= 1000
    /\ ~IsNone(file_tracker)
          => \A s \in DOMAIN Val(file_tracker).stores :
                 Len(Val(file_tracker).stores[s].history) <= 1000

(* The counters of a tracker: the global ones and, for every store, the    *)
(* overall, by-phase and by-deal-type ones                                 *)
C18_Counters(trk) ==
    [global_metrics |-> trk.global_metrics,
     stores |-> [s \in DOMAIN trk.stores |->
                    [overall |-> trk.stores[s].overall,
                     by_phase |-> trk.stores[s].by_phase,
                     by_deal_type |-> trk.stores[s].by_deal_type]]]

(* C18: a tracker constructed from the file another tracker wrote, after   *)
(* any record_result and record_correction calls, has the counters of the  *)
(* tracker that wrote it: total, correct, incorrect and corrections        *)
(* received, global and per store overall, by phase and by deal type.      *)
C18_TrackerRoundTrip ==
    [][(last'.op = "restart" /\ last'.raised = "None")
         => C18_Counters(tracker') = C18_Counters(tracker)]_vars

(* C19: whatever the files of the data directory hold, constructing a      *)
(* ProgressiveLearner on it completes.                                     *)
C19_ConstructionNeverFails == last.op = "restart" => last.raised = "None"

(* C20: a process that ends inside a save leaves the file it was writing   *)
(* with its complete previous or its complete new content: no file is      *)
(* incomplete afterwards that was not before.                              *)
C20_SavesAreAtomic ==
    [][(last'.op \in SavingCalls /\ last'.raised = "process_ended")
         => unreadable' \subseteq unreadable]_vars

(* C21: the classifier the matcher uses is always a trained one or none:   *)
(* a retrain that fails part-way leaves the previous classifier active.    *)
C21_ActiveClassifierTrained == model \in {"None", "trained"}

(* C22: a retrain attempted below 10 buffered examples or without the ML   *)
(* backend reports a status other than success, leaves the classifier as   *)
(* it was and raises nothing.                                              *)
C22_RetrainReportsFailure ==
    [][(/\ last'.op = "learn_from_correction"
        /\ last'.ml_retrain # "none"
        /\ (Len(training_data') < MinTrainingExamples \/ ~sklearn_available))
       => (/\ last'.ml_retrain # "success"
           /\ model' = model
           /\ last'.raised = "None")]_vars

(* The raw texts of the corrections: the corrected price 5.99 after a      *)
(* dollar sign, before "dollars", in no context the patterns know, and not *)
(* in the text.                                                            *)
RawTexts ==
    {"Chicken Breast $5.99/lb", "Chicken Breast 5.99 dollars",
     "Chicken Breast 5.99 per lb", "Chicken Breast $6.49/lb"}

(* price_str in raw_text, for the price 5.99 of CorrectedDeal *)
PriceInText(raw_text) ==
    raw_text \in {"Chicken Breast $5.99/lb", "Chicken Breast 5.99 dollars",
                  "Chicken Breast 5.99 per lb"}

CustomPatterns(tpls, store) ==
    IF Lower(store) \in DOMAIN tpls
        THEN tpls[Lower(store)].custom_patterns
        ELSE <<>>

NextTemplates ==
    \/ /\ total_corrections < MaxCorrectionsTemplates
       /\ \E raw_text \in RawTexts, store \in TrackerStores :
             learn_from_correction("deal_1", ParsedDeal, CorrectedDeal,
                 raw_text, store, None, None, "None")
    \/ Restart

SpecTemplates == Init /\ [][NextTemplates]_vars

(* C23: a correction whose corrected price differs from the original and   *)
(* appears in raw_text adds at least one custom pattern to the store's     *)
(* template, and a parser constructed from the saved file has the same     *)
(* custom patterns.                                                        *)
C23_TemplateCorrectionRoundTrip ==
    [][/\ (/\ last'.op = "learn_from_correction"
           /\ PriceInText(last'.args.raw_text))
          => Len(CustomPatterns(templates', last'.args.store))
                 > Len(CustomPatterns(templates, last'.args.store))
       /\ last'.op = "restart"
          => \A store \in TrackerStores :
                 CustomPatterns(templates', store)
                     = CustomPatterns(templates, store)]_vars

(* The learner with an empty catalog or with the catalog of the model *)
InitSelect == InitEnv({SmallConfig}, {TRUE}, {<<>>, Catalog})

SpecSelect == InitSelect /\ [][NextAds]_vars

(* process_ad runs the matcher: the phase, the classifier and the catalog  *)
(* at the start of the call                                                *)
C24_RunsMatcher ==
    current_phase = PHASE_3_ML /\ model = "trained" /\ Len(catalog) > 0

Spans == {<<a, b>> : a \in 0..MaxPos, b \in 0..MaxPos} \ {<<a, b>> \in (0..MaxPos) \X (0..MaxPos) : b < a}

Candidates ==
    {[ParsedDeal EXCEPT !.position = pos, !.product_name = product_name] :
         pos \in Spans, product_name \in {"None", "Chicken Breast"}}

CandidateLists == UNION {[1..n -> Candidates] : n \in 0..MaxDeals}

(* The extractors of parse hand a list of candidate deals to             *)
(* _deduplicate_deals.                                                     *)
candidates(deals) ==
    /\ last.op = "init"
    /\ last' = Result("candidates", [deals |-> deals], <<>>, FALSE, "none")
    /\ UNCHANGED <<envVars, classVars, current_phase, corrections, ads_processed,
                   total_corrections, training_data,
                   pending_corrections_for_retrain, model, tracker, templates,
                   file_state, file_training, file_model, file_tracker,
                   file_templates, unreadable>>

(* RegexDealParser._deduplicate_deals on the list of candidate deals *)
deduplicate ==
    /\ last.op = "candidates"
    /\ last' = [op |-> "deduplicate_deals", args |-> last.args,
                actions_taken |-> <<>>, phase_advanced |-> FALSE,
                ml_retrain |-> "none", raised |-> "None",
                unique_deals |-> deduplicate_deals(last.args.deals)]
    /\ UNCHANGED <<envVars, classVars, current_phase, corrections, ads_processed,
                   total_corrections, training_data,
                   pending_corrections_for_retrain, model, tracker, templates,
                   file_state, file_training, file_model, file_tracker,
                   file_templates, unreadable>>

(* RegexDealParser.parse on an ad text *)
parse(text) ==
    /\ last.op = "init"
    /\ last' = [op |-> "parse", args |-> [ad_text |-> text],
                actions_taken |-> <<>>, phase_advanced |-> FALSE,
                ml_retrain |-> "none", raised |-> RegexParse(text).raised,
                unique_deals |-> RegexParse(text).deals]
    /\ UNCHANGED <<envVars, classVars, current_phase, corrections, ads_processed,
                   total_corrections, training_data,
                   pending_corrections_for_retrain, model, tracker, templates,
                   file_state, file_training, file_model, file_tracker,
                   file_templates, unreadable>>

NextDedup ==
    \/ /\ last.op = "init"
       /\ \E deals \in CandidateLists : candidates(deals)
    \/ deduplicate
    \/ \E text \in AdTexts : parse(text)

SpecDedup == Init /\ [][NextDedup]_vars

(* Two spans share a position; spans that touch at an endpoint do *)
C25_Overlap(pos1, pos2) ==
    pos1[1] <= pos2[2] /\ pos2[1] <= pos1[2]

(* C25: no two deals that survive the deduplication of the regex parser    *)
(* have overlapping spans.                                                 *)
C25_SurvivorsDisjoint ==
    last.op \in {"deduplicate_deals", "parse"}
        => \A i, j \in 1..Len(last.unique_deals) :
               i # j => ~C25_Overlap(last.unique_deals[i].position,
                                     last.unique_deals[j].position)

C25_Witness ==
    /\ last.op = "deduplicate_deals"
    /\ Len(last.args.deals) = 3
    /\ Len(last.unique_deals) = 2
    /\ \E i, j \in 1..3 :
           /\ i # j
           /\ last.args.deals[i].position[2] = last.args.deals[j].position[1]

(* A configuration whose Phase 3 thresholds are not above its Phase 2      *)
(* thresholds and that asks no accuracy of Phase 2                         *)
FlatConfig ==
    [min_ads_for_phase_2 |-> 1,
     min_corrections_for_phase_2 |-> 1,
     min_ads_for_phase_3 |-> 1,
     min_corrections_for_phase_3 |-> 1,
     min_accuracy_for_phase_3 |-> 0,
     ml_retrain_threshold |-> 2]

InitFlat == InitEnv({FlatConfig}, {TRUE}, {<<>>})

SpecFlat == InitFlat /\ [][Next]_vars

(* C26: a process_ad or learn_from_correction call raises the phase by at  *)
(* most one.                                                               *)
C26_OnePhasePerCall ==
    [][last'.op \in {"process_ad", "learn_from_correction"}
       => current_phase' <= current_phase + 1]_vars

(* A call has entered Phase 2 while the guard of Phase 3 holds as well *)
C26_Witness ==
    /\ last.op \in {"process_ad", "learn_from_correction"}
    /\ last.phase_advanced
    /\ current_phase = PHASE_2_TEMPLATE
    /\ Phase3Guard(config, ads_processed, total_corrections, tracker)

(* record_result was called with is_correct = true while the learner was   *)
(* in Phase 2: the history of some store holds the event.                  *)
C27_CorrectInPhase2(trk) ==
    \E s \in DOMAIN trk.stores :
        \E i \in 1..Len(trk.stores[s].history) :
            /\ trk.stores[s].history[i].is_correct
            /\ trk.stores[s].history[i].phase = PHASE_2_TEMPLATE

(* C27: with min_accuracy_for_phase_3 > 0 the learner enters Phase 3 only  *)
(* after a record_result call with is_correct = true made in Phase 2, and  *)
(* record_result does not change the phase.                                *)
C27_Phase3NeedsCorrectResult ==
    [][config.min_accuracy_for_phase_3 > 0
       => /\ (current_phase # PHASE_3_ML /\ current_phase' = PHASE_3_ML)
                => C27_CorrectInPhase2(tracker)
          /\ last'.op = "record_result" => current_phase' = current_phase]_vars

C27_Witness ==
    /\ config.min_accuracy_for_phase_3 > 0
    /\ current_phase = PHASE_3_ML
    /\ last.op \in {"process_ad", "learn_from_correction"}
    /\ last.phase_advanced
    /\ C27_CorrectInPhase2(tracker)

(* What a learn_from_correction call may change in the templates another   *)
(* TemplateDealParser of the process has or gets: a parser with an empty   *)
(* templates path, or a path without a file, holds the templates of the    *)
(* class attribute.                                                        *)
C28_Learned(tpls) ==
    [s \in DOMAIN tpls |->
        [sample_count |-> tpls[s].sample_count,
         custom_patterns |-> tpls[s].custom_patterns]]

(* C28: a learn_from_correction call changes sample_count and              *)
(* custom_patterns only in the parser that received it.                    *)
C28_LearningConfinedToInstance ==
    [][last'.op = "learn_from_correction"
       => C28_Learned(default_templates') = C28_Learned(default_templates)]_vars

C29_Consistent(metrics) ==
    metrics.total_deals = metrics.correct_matches + metrics.incorrect_matches

(* C29: every AccuracyMetrics of the tracker has                           *)
(* total_deals = correct_matches + incorrect_matches: the global metrics   *)
(* and each store's overall, by-phase and by-deal-type metrics.            *)
C29_TotalsAreSums ==
    /\ C29_Consistent(tracker.global_metrics)
    /\ \A s \in DOMAIN tracker.stores :
           /\ C29_Consistent(tracker.stores[s].overall)
           /\ \A phase \in DOMAIN tracker.stores[s].by_phase :
                  C29_Consistent(tracker.stores[s].by_phase[phase])
           /\ \A deal_type \in DOMAIN tracker.stores[s].by_deal_type :
                  C29_Consistent(tracker.stores[s].by_deal_type[deal_type])

(* C30: learn_from_correction lists 'ml_model_retrained' in actions_taken  *)
(* only when the retrain of that call succeeded and the matcher holds a    *)
(* trained model.                                                          *)
C30_RetrainedActionIsTruthful ==
    (/\ last.op = "learn_from_correction"
     /\ last.raised = "None"
     /\ "ml_model_retrained" \in Range(last.actions_taken))
        => (last.ml_retrain = "success" /\ model = "trained")

====
